---- MODULE Spec2Model ----
(***************************************************************************)
(* Verification model of the Tachyon accumulator crates                    *)
(* (accum::poly, accum::ipa, accum::poseidon, consensus::accum_record,     *)
(* consensus::publisher, pcd::block_circuit, pcd::wallet_step).            *)
(*                                                                         *)
(* Abstractions                                                            *)
(*  - FrVesta (vesta::Scalar, 255 bits, two-adicity 32) is the prime field *)
(*    of order VestaModulus with two-adicity TWO_ADICITY and the 2^S-th    *)
(*    primitive root ROOT_OF_UNITY.                                        *)
(*  - The Pallas group is the cyclic group of prime order PallasModulus; a *)
(*    point is its discrete logarithm to the generator (identity = 0,      *)
(*    generator = 1) and pallas::Scalar is arithmetic modulo PallasModulus.*)
(*  - A 32-byte string is the natural number its little-endian bytes spell.*)
(*  - BLAKE2b is an ideal (collision-free) hash, a pairing of the          *)
(*    personalization and the message; it keeps the library's precondition *)
(*    on the personalization length.                                       *)
(***************************************************************************)
EXTENDS Integers, Sequences, FiniteSets, TLC

VARIABLES
    pc,         \* which harness is running: "poly", "par", "msm", "chain", ...
    roots,      \* poly/par: the root sequence handed to the polynomial engine
    xpt,        \* poly: the evaluation point
    coeffs,     \* poly: result of roots_to_coeffs (<<>> before the call)
    coeffsFft,  \* poly: result of roots_to_coeffs_fft (<<>> before the call)
    hornerVal,  \* poly: result of eval_horner(coeffs, xpt) (NoVal before)
    directVal,  \* poly: result of eval_from_roots(roots, xpt) (NoVal before)
    tasks,      \* par: the rayon::join task tree of roots_to_coeffs_parallel,
                \*      node id -> [rs, st, res]; node n forks 2n and 2n+1
    bases,      \* msm: the bases handed to the MSM engine
    scalars,    \* msm: the scalars handed to the MSM engine
    msmOut,     \* msm: result of msm_pippenger (NoPoint before the call)
    refOut,     \* msm: result of circuit::msm_reference (NoPoint before)
    accA,       \* chain: the prior-state bytes a_i the verifier holds
    rec,        \* chain: the BlockAccumRecord in hand (NoRec before any)
    built,      \* chain: the last constructor call, [op, arg, out]
    verdict,    \* chain: what verify_step(rec, accA) did ("none" before)
    tampered,   \* chain: which bytes were changed after the last verdict
    wit,        \* wallet: the WalletStepWitness
    walletOut,  \* wallet: outcome of prove_wallet_step(wit)
    call,       \* low: the low-level call made, [fn, arg, personal, st]
    blockWit,   \* block: the BlockPolyWitness handed to prove_block_poly
    blockOut,   \* block: outcome of prove_block_poly(blockWit)
    batch,      \* ser: the BatchUpdate, a sequence of [key_hash, present]
    enc,        \* ser: the bytes serialize_batch returned (<<>> before)
    padVec,     \* pad: the coefficient vector pad_coeffs_to works on
    padOld,     \* pad: the vector as it was before the last call
    padTarget,  \* pad: target_len of the last call (-1 before any)
    batches,    \* batch: the root sets handed to a batch conversion
    batchFn,    \* batch: which batch conversion runs ("none" before the call)
    batchSlots, \* batch: par_iter's per-index results, filled by the workers
    batchOut,   \* batch: what collect() returned, [st, val]
    pcdChain,   \* pcd: the proofs prove_step returned, each over the one before
    pcdChecked, \* pcd: the last verify_step call, [idx, out] (idx 0 before)
    window,     \* pool: the NullifierSMAWindow shared by the mempool calls
    inserted,   \* pool: the nullifiers handed to the window so far, by
                \*       apply_batch (present items) or by verify_block
    poolOut,    \* pool: the last mempool call, [op, arg, out]
    cval,       \* codec: the value at hand, [kind, v] (kind "stamp" or "agg")
    cbytes,     \* codec: the byte string at hand (<<>> before any encoding)
    cshape,     \* codec: how cbytes came about: "empty", "canonical", "prefix",
                \*        "huge", "trailing", "version" or "anchor_version"
    cout        \* codec: the last read of cbytes, [op, out, rest]

polyVars == <<roots, xpt, coeffs, coeffsFft, hornerVal, directVal>>
parVars == <<tasks>>
msmVars == <<bases, scalars, msmOut, refOut>>

chainVars == <<accA, rec, built, verdict, tampered>>
walletVars == <<wit, walletOut>>
lowVars == <<call>>
blockVars == <<blockWit, blockOut>>
serVars == <<batch, enc>>
padVars == <<padVec, padOld, padTarget>>
batchVars == <<batches, batchFn, batchSlots, batchOut>>
pcdVars == <<pcdChain, pcdChecked>>
poolVars == <<window, inserted, poolOut>>
codecVars == <<cval, cbytes, cshape, cout>>
lateVars == <<pcdVars, poolVars, codecVars>>
midVars == <<blockVars, serVars, padVars, batchVars>>
moreVars == <<midVars, lateVars>>

vars == <<pc, polyVars, parVars, msmVars, chainVars, walletVars, lowVars, moreVars>>

\* what each harness leaves alone
notPoly == <<pc, parVars, msmVars, chainVars, walletVars, lowVars, moreVars>>
notPar == <<pc, polyVars, msmVars, chainVars, walletVars, lowVars, moreVars>>
notMsm == <<pc, polyVars, parVars, chainVars, walletVars, lowVars, moreVars>>
notChain == <<pc, polyVars, parVars, msmVars, walletVars, lowVars, moreVars>>
notWallet == <<pc, polyVars, parVars, msmVars, chainVars, lowVars, moreVars>>
notLow == <<pc, polyVars, parVars, msmVars, chainVars, walletVars, moreVars>>
firstVars == <<polyVars, parVars, msmVars, chainVars, walletVars, lowVars>>
notBlock == <<pc, firstVars, serVars, padVars, batchVars, lateVars>>
notSer == <<pc, firstVars, blockVars, padVars, batchVars, lateVars>>
notPad == <<pc, firstVars, blockVars, serVars, batchVars, lateVars>>
notBatch == <<pc, firstVars, blockVars, serVars, padVars, lateVars>>
notPcd == <<pc, firstVars, midVars, poolVars, codecVars>>
notPool == <<pc, firstVars, midVars, pcdVars, codecVars>>
notCodec == <<pc, firstVars, midVars, pcdVars, poolVars>>

----------------------------------------------------------------------------
(* Bounds of the model *)

\* longest root sequence given to the polynomial engine
MaxRoots == 4
\* roots and evaluation points are drawn from 0..MaxRootVal
MaxRootVal == 2
\* longest freely chosen base and scalar list given to the MSM engine
MaxMsmLen == 2
\* lengths of the long, regularly spaced MSM inputs: beyond the 3-bit window
\* and beyond the 5-bit window
LongMsmLen == 33
LongerMsmLen == 129
\* most tachygrams in a block handed to build_block_record
MaxGrams == 2
\* tachygrams are drawn from 1..MaxGramVal
MaxGramVal == 3
\* highest byte index a tampering touches
MaxTamperByte == 1
\* derive_base is called on chunks 0..MaxChunk and indices 0..MaxIdx
MaxChunk == 3
MaxIdx == 7
\* map_vesta_scalar_to_pallas is called on the byte strings 0..MaxMapInput
MaxMapInput == 15
\* derive_bases_len is called on 0..MaxBasesLen, and past a chunk boundary
MaxBasesLen == 3
\* longest nullifier or commitment vector handed to a block digest
MaxDigestLen == 3
\* longest freely chosen batch handed to serialize_batch, and the length of
\* the long batch whose count needs a second byte
MaxBatchLen == 3
LongBatchLen == 258
\* longest vector handed to pad_coeffs_to, and the largest target_len
MaxPadLen == 3
MaxPadTarget == 4
\* most root sets handed to a batch conversion
MaxBatches == 3
\* most roots in a witness handed to prove_block_poly
MaxBlockRoots == 2
MaxPcdChain == 3
MaxWindowLen == 3

----------------------------------------------------------------------------
(* Field A: FrVesta = pasta_curves::vesta::Scalar *)

VestaModulus == 257
TWO_ADICITY == 8
ROOT_OF_UNITY == 3

\* a value no field operation returns: "not computed yet"
NoVal == VestaModulus

FrAdd(a, b) == (a + b) % VestaModulus
FrSub(a, b) == (a - b + VestaModulus) % VestaModulus
FrMul(a, b) == (a * b) % VestaModulus
FrNeg(a) == (VestaModulus - a) % VestaModulus

\* Field::pow_vartime, square and multiply
RECURSIVE FrPow(_, _)
FrPow(a, e) ==
    IF e = 0 THEN 1
    ELSE LET h == FrPow(a, e \div 2)
         IN IF e % 2 = 0 THEN FrMul(h, h) ELSE FrMul(a, FrMul(h, h))

\* Field::invert: None for zero; callers unwrap it on non-zero values only
FrInvert(a) == FrPow(a, VestaModulus - 2)

RECURSIVE Pow2(_)
Pow2(k) == IF k = 0 THEN 1 ELSE 2 * Pow2(k - 1)

\* evaluation order only: v is computed before e; the value is e
Eager(v, e) == IF v = v THEN e ELSE e

\* for i in lo..hi { acc = Body(acc, i) }: the iterations lo..mid run
\* first, then mid+1..hi on what they left
RECURSIVE ForRange(_, _, _, _)
ForRange(Body(_, _), acc, lo, hi) ==
    IF lo > hi THEN acc
    ELSE IF lo = hi THEN Body(acc, lo)
    ELSE LET mid == (lo + hi) \div 2
             left == ForRange(Body, acc, lo, mid)
         IN Eager(left, ForRange(Body, left, mid + 1, hi))

Min(a, b) == IF a <= b THEN a ELSE b

\* vec![v; n]
Repeat(v, n) == [i \in 1..n |-> v]

\* all sequences over S of length 0..n
SeqsUpTo(S, n) == UNION {[1..k -> S] : k \in 0..n}

----------------------------------------------------------------------------
(* accum::poly *)

\* the same loop without next[j + 1] += c[j]
MulLinear_no_shift(c, r) ==
    ForRange(LAMBDA next, j :
                 [next EXCEPT ![j + 1] = FrAdd(@, FrMul(FrNeg(r), c[j + 1]))],
             Repeat(0, Len(c) + 1), 0, Len(c) - 1)

\* for j in 0..c.len() { next[j + 1] += c[j]; next[j] += (-r) * c[j] }
MulLinear(c, r) ==
    ForRange(LAMBDA next, j :
                 [next EXCEPT ![j + 2] = FrAdd(@, c[j + 1]),
                              ![j + 1] = FrAdd(@, FrMul(FrNeg(r), c[j + 1]))],
             Repeat(0, Len(c) + 1), 0, Len(c) - 1)

\* for &r in roots { c = next }
roots_to_coeffs(rs) ==
    ForRange(LAMBDA c, k : MulLinear(c, rs[k]), <<1>>, 1, Len(rs))

\* the same fold with the constant coefficient left out
eval_horner_skip_constant(cs, x) ==
    ForRange(LAMBDA acc, k : FrAdd(FrMul(acc, x), cs[Len(cs) + 1 - k]),
             0, 1, Len(cs) - 1)

\* for &c in coeffs.iter().rev() { acc = acc * x + c }
eval_horner(cs, x) ==
    ForRange(LAMBDA acc, k : FrAdd(FrMul(acc, x), cs[Len(cs) + 1 - k]),
             0, 1, Len(cs))

\* roots.iter().fold(ONE, |acc, a| acc * (x - *a))
eval_from_roots(rs, x) ==
    ForRange(LAMBDA acc, k : FrMul(acc, FrSub(x, rs[k])), 1, 1, Len(rs))

\* coeffs.resize(target_len, ZERO) without the length test: Vec::resize
\* truncates a longer vector
pad_coeffs_resize(cs, target_len) ==
    IF Len(cs) < target_len THEN cs \o Repeat(0, target_len - Len(cs))
    ELSE SubSeq(cs, 1, target_len)

pad_coeffs_to(cs, target_len) ==
    IF Len(cs) < target_len THEN cs \o Repeat(0, target_len - Len(cs)) ELSE cs

\* out[i + j] = a[i] * b[j]: each product overwrites the slot, the last
\* writer of slot k being the largest i
convolve_overwrite(a, b) ==
    [k \in 1..(Len(a) + Len(b) - 1) |->
        LET i == Min(k - 1, Len(a) - 1)
        IN FrMul(a[i + 1], b[k - i])]

\* for i { for j { out[i + j] += a[i] * b[j] } }
convolve(a, b) ==
    ForRange(LAMBDA out, i :
                 ForRange(LAMBDA o, j :
                              [o EXCEPT ![i + j + 1] =
                                   FrAdd(@, FrMul(a[i + 1], b[j + 1]))],
                          out, 0, Len(b) - 1),
             Repeat(0, Len(a) + Len(b) - 1), 0, Len(a) - 1)

RECURSIVE roots_to_coeffs_divide_conquer(_)
roots_to_coeffs_divide_conquer(rs) ==
    IF Len(rs) = 0 THEN <<1>>
    ELSE IF Len(rs) = 1 THEN <<FrNeg(rs[1]), 1>>
    ELSE LET mid == Len(rs) \div 2
             left == SubSeq(rs, 1, mid)
             right == SubSeq(rs, mid + 1, Len(rs))
         IN convolve(roots_to_coeffs_divide_conquer(left),
                     roots_to_coeffs_divide_conquer(right))

roots_to_coeffs_parallel(rs) == roots_to_coeffs_divide_conquer(rs)

(* NTT helpers *)

RECURSIVE BitRevLoop(_, _, _)
BitRevLoop(x, lg_n, y) ==
    IF lg_n = 0 THEN y ELSE BitRevLoop(x \div 2, lg_n - 1, 2 * y + (x % 2))

bitreverse(x, lg_n) == BitRevLoop(x, lg_n, 0)

\* usize::trailing_zeros of a power of two
RECURSIVE trailing_zeros(_)
trailing_zeros(n) == IF n % 2 = 1 THEN 0 ELSE 1 + trailing_zeros(n \div 2)

\* usize::next_power_of_two
RECURSIVE NextPow2From(_, _)
NextPow2From(n, k) == IF k >= n THEN k ELSE NextPow2From(n, 2 * k)

next_power_of_two(n) == NextPow2From(n, 1)

Swap(a, i, j) == [a EXCEPT ![i + 1] = a[j + 1], ![j + 1] = a[i + 1]]

\* for i in 0..n { let j = bitreverse(i, lg_n); if i < j { a.swap(i, j) } }
BitReversePermute(a, lg_n) ==
    ForRange(LAMBDA x, i :
                 LET j == bitreverse(i, lg_n)
                 IN IF i < j THEN Swap(x, i, j) ELSE x,
             a, 0, Len(a) - 1)

\* let u = a[i]; let v = a[i + half] * w; a[i] = u + v; a[i + half] = u - v
Butterfly(a, i, half, w) ==
    LET u == a[i + 1]
        v == FrMul(a[i + half + 1], w)
    IN [a EXCEPT ![i + 1] = FrAdd(u, v), ![i + half + 1] = FrSub(u, v)]

\* for j in 0..half { if j == 0 { w = ONE } else { w *= w_m };
\*                    let mut i = j; while i < n { butterfly; i += len } }
TwiddleLoop(a, len, w_m) ==
    LET half == len \div 2
        done ==
          ForRange(LAMBDA s, j :
                       LET w == IF j = 0 THEN 1 ELSE FrMul(s.w, w_m)
                       IN [a |-> ForRange(LAMBDA x, t : Butterfly(x, j + t * len, half, w),
                                          s.a, 0, (Len(a) - 1 - j) \div len),
                           w |-> w],
                   [a |-> a, w |-> 1], 0, half - 1)
    IN done.a

\* while len <= n { ...; w_m = w_m * w_m; len <<= 1 }
RECURSIVE StageLoop(_, _, _)
StageLoop(a, len, w_m) ==
    IF len > Len(a) THEN a
    ELSE LET stage == TwiddleLoop(a, len, w_m)
         IN Eager(stage, StageLoop(stage, 2 * len, FrMul(w_m, w_m)))

fft_in_place(a, omega) ==
    StageLoop(BitReversePermute(a, trailing_zeros(Len(a))), 2, omega)

ifft_in_place(a, omega_inv) ==
    LET n_inv == FrInvert(Len(a) % VestaModulus)
        f == fft_in_place(a, omega_inv)
    IN [i \in 1..Len(a) |-> FrMul(f[i], n_inv)]

\* (omega, omega_inv) with omega = ROOT_OF_UNITY ^ (2 ^ (S - log2 n))
omega_for_size(n) ==
    LET omega == FrPow(ROOT_OF_UNITY, Pow2(TWO_ADICITY - trailing_zeros(n)))
    IN <<omega, FrInvert(omega)>>

convolution_fft(a, b) ==
    LET needed == Len(a) + Len(b) - 1
        n == next_power_of_two(needed)
        om == omega_for_size(n)
        fa == fft_in_place(a \o Repeat(0, n - Len(a)), om[1])
        fb == fft_in_place(b \o Repeat(0, n - Len(b)), om[1])
        prod == [i \in 1..n |-> FrMul(fa[i], fb[i])]
    IN SubSeq(ifft_in_place(prod, om[2]), 1, needed)

\* for chunk in polys.chunks(2) { next.push(..) }
TreeLevel(polys) ==
    ForRange(LAMBDA next, c :
                 Append(next,
                        IF 2 * c <= Len(polys)
                        THEN convolution_fft(polys[2 * c - 1], polys[2 * c])
                        ELSE polys[2 * c - 1]),
             <<>>, 1, (Len(polys) + 1) \div 2)

\* while polys.len() > 1 { polys = next }; polys.pop().unwrap()
RECURSIVE ProductTree(_)
ProductTree(polys) ==
    IF Len(polys) <= 1 THEN polys[Len(polys)]
    ELSE LET next == TreeLevel(polys)
         IN Eager(next, ProductTree(next))

roots_to_coeffs_fft(rs) ==
    IF Len(rs) = 0 THEN <<1>>
    ELSE ProductTree([i \in 1..Len(rs) |-> <<FrNeg(rs[i]), 1>>])

(* batches.par_iter().map(f).collect(): the workers take the items in any  *)
(* order, each result goes to the position of its item                     *)

\* a position of the output no worker has written yet (no conversion
\* returns an empty vector)
Pending == <<>>

\* the result of item i is appended to what has been collected so far
collect_in_completion_order(slots, i, v) ==
    LET first == CHOOSE k \in 1..Len(slots) :
                     /\ slots[k] = Pending
                     /\ \A j \in 1..(k - 1) : slots[j] # Pending
    IN [slots EXCEPT ![first] = v]

\* the indexed collect: the result of item i is written at position i
collect_indexed(slots, i, v) == [slots EXCEPT ![i] = v]

\* the closure of batch_roots_to_coeffs_parallel or batch_roots_to_coeffs_fft
batch_item(fn, r) ==
    IF fn = "batch_roots_to_coeffs_parallel" THEN roots_to_coeffs_parallel(r)
    ELSE roots_to_coeffs_fft(r)

----------------------------------------------------------------------------
(* BLAKE2b as the crates use it: Blake2bParams::new().hash_length(n)        *)
(* .personal(tag).hash(msg).  Params::personal asserts that the             *)
(* personalization is at most PERSONALBYTES long and panics otherwise.      *)

PERSONALBYTES == 16

\* the outcome of a call that panicked (no field element, point or digest)
Panic == -1

\* Option::None of decode_point
None == -2

H2C_DOMAIN == "tachyon/ipa:base-derivation"
DS_COEFF_MAP == "tachyon/coeff-map"
DOM_A_H == "tachyon:A/h"
DOM_S_H == "tachyon:S/h"
DOM_BLOCK_R == "tachyon:block:r"
\* b"tg.to_fr.v1\0\0\0\0\0": the five NUL bytes are written 0
DS_TACHYGRAM_TO_FR_V1 == "tg.to_fr.v100000"
\* consensus::digest, NUL-padded to 16 bytes in the same way
DS_ORCH_ROOT_V1 == "orch.root.v10000"
DS_NF_BLOCK_V1 == "nf.block.v100000"
DS_CM_DELTA_V1 == "cm.delta.v100000"
DS_MMR_LEAF_V1 == "mmr.leaf.v100000"

TagIndex(personal) ==
    CASE personal = H2C_DOMAIN -> 1
      [] personal = DS_COEFF_MAP -> 2
      [] personal = DOM_A_H -> 3
      [] personal = DOM_S_H -> 4
      [] personal = DOM_BLOCK_R -> 5
      [] personal = DS_TACHYGRAM_TO_FR_V1 -> 6
      [] personal = DS_ORCH_ROOT_V1 -> 7
      [] personal = DS_NF_BLOCK_V1 -> 8
      [] personal = DS_CM_DELTA_V1 -> 9
      [] personal = DS_MMR_LEAF_V1 -> 10
      [] OTHER -> 0

\* an injective code of a pair of naturals
Pair(a, b) == ((a + b) * (a + b + 1)) \div 2 + b

\* an injective code of the message, a sequence of byte strings
RECURSIVE MsgCode(_)
MsgCode(msg) ==
    IF Len(msg) = 0 THEN 0
    ELSE IF Len(msg) = 1 THEN msg[1]
    ELSE Pair(msg[1], MsgCode(Tail(msg)))

\* the digest: distinct (personalization, message) give distinct digests
Blake2b(personal, msg) ==
    IF Len(personal) > PERSONALBYTES THEN Panic
    ELSE TagIndex(personal) + 16 * MsgCode(msg)

----------------------------------------------------------------------------
(* Field B and the Pallas group *)

PallasModulus == 127
NUM_BITS == 7
REPR_LEN == 1

IDENTITY == 0
GENERATOR == 1

\* a value no group operation returns: "not computed yet"
NoPoint == PallasModulus

PtAdd(a, b) == (a + b) % PallasModulus
PtDouble(a) == (2 * a) % PallasModulus
PtMul(a, s) == (a * s) % PallasModulus
FqNeg(s) == (PallasModulus - s) % PallasModulus

\* FromUniformBytes::from_uniform_bytes: reduction of the wide value
from_uniform_bytes(wide, modulus) == wide % modulus

\* PrimeField::to_repr of a Pallas scalar: little-endian bytes
to_repr(s) == [k \in 1..REPR_LEN |-> (s \div (256 ^ (k - 1))) % 256]

\* PrimeField::to_repr of a field-A element: little-endian bytes
VESTA_REPR_LEN == 2
fr_to_repr(x) == [k \in 1..VESTA_REPR_LEN |-> (x \div (256 ^ (k - 1))) % 256]

\* a byte array read as the number its little-endian bytes spell; byte
\* strings of a fixed length ([u8; 32]) are held as this number
RECURSIVE LeValue(_)
LeValue(bytes) ==
    IF Len(bytes) = 0 THEN 0 ELSE bytes[1] + 256 * LeValue(Tail(bytes))

\* byte k of a byte string, and the string with byte k replaced by v
ByteAt(x, k) == (x \div (256 ^ k)) % 256
SetByte(x, k, v) == x - ByteAt(x, k) * (256 ^ k) + v * (256 ^ k)

\* 2^256 reduced: the weight of the upper half of a 64-byte wide value
RECURSIVE PowMod(_, _, _)
PowMod(a, e, modulus) ==
    IF e = 0 THEN 1 % modulus
    ELSE LET h == PowMod(a, e \div 2, modulus)
         IN IF e % 2 = 0 THEN (h * h) % modulus ELSE (a * ((h * h) % modulus)) % modulus

\* from_uniform_bytes of wide[..32] = lo, wide[32..] = hi
from_uniform_halves(lo, hi, modulus) ==
    ((lo % modulus) + (hi % modulus) * PowMod(2, 256, modulus)) % modulus

----------------------------------------------------------------------------
(* accum::ipa *)

DEGREE_N == 4096
NUM_COEFFICIENTS == DEGREE_N + 1
CHUNK == 256
NUM_CHUNKS == (NUM_COEFFICIENTS + CHUNK - 1) \div CHUNK

derive_scalar(chunk, idx) ==
    LET hash == Blake2b(H2C_DOMAIN, <<chunk, idx>>)
    IN IF hash = Panic THEN Panic ELSE from_uniform_bytes(hash, PallasModulus)

derive_base(chunk, idx) ==
    LET s == derive_scalar(chunk, idx)
    IN IF s = Panic THEN Panic ELSE PtMul(GENERATOR, s)

\* a sequence one of whose elements was not produced: the loop panicked
SeqPanics(sq) == \E i \in 1..Len(sq) : sq[i] = Panic

derive_bases_len(n) ==
    [k \in 1..n |-> derive_base((k - 1) \div CHUNK, (k - 1) % CHUNK)]

\* while remaining > 0 { let take = remaining.min(CHUNK);
\*     for idx in 0..take { bases.push(derive_base(chunk, idx)) };
\*     remaining -= take; chunk += 1 }
RECURSIVE AllBasesLoop(_, _, _)
AllBasesLoop(bs, remaining, chunk) ==
    IF remaining > 0
    THEN LET take == Min(remaining, CHUNK)
             pushed == bs \o [k \in 1..take |-> derive_base(chunk, k - 1)]
         IN Eager(pushed, AllBasesLoop(pushed, remaining - take, chunk + 1))
    ELSE bs

derive_all_bases == AllBasesLoop(<<>>, NUM_COEFFICIENTS, 0)

g0 == derive_base(0, 0)

optimal_window(n) ==
    IF n <= 32 THEN 3
    ELSE IF n <= 128 THEN 5
    ELSE IF n <= 512 THEN 7
    ELSE IF n <= 2048 THEN 11
    ELSE IF n <= 8192 THEN 13
    ELSE 15

\* for i in 0..w { ...; if byte >= 32 { break }; acc |= bit << i }
RECURSIVE WindowBits(_, _, _, _, _)
WindowBits(bytes_le, start, w, i, acc) ==
    IF i >= w THEN acc
    ELSE LET bit_idx == start + i
             byte == bit_idx \div 8
             bit_in_byte == bit_idx % 8
         IN IF byte >= REPR_LEN THEN acc
            ELSE LET b == (bytes_le[byte + 1] \div Pow2(bit_in_byte)) % 2
                 IN WindowBits(bytes_le, start, w, i + 1, acc + b * Pow2(i))

window_value(bytes_le, win, w) == WindowBits(bytes_le, win * w, w, 0, 0)

RECURSIVE DoubleTimes(_, _)
DoubleTimes(acc, k) == IF k = 0 THEN acc ELSE DoubleTimes(PtDouble(acc), k - 1)

\* for i in 0..m { val = window_value(..); if val == 0 { continue };
\*                 buckets[val - 1] += bases[i] }
FillBuckets(buckets, bs, scalars_le, win, w, m) ==
    ForRange(LAMBDA bk, i :
                 LET val == window_value(scalars_le[i + 1], win, w)
                 IN IF val = 0 THEN bk
                    ELSE [bk EXCEPT ![val] = PtAdd(@, bs[i + 1])],
             buckets, 0, m - 1)

\* the buckets summed without their weights: acc += buckets[j]
BucketReduceUnweighted(acc, buckets) ==
    ForRange(LAMBDA sum, k : PtAdd(sum, buckets[Len(buckets) + 1 - k]),
             acc, 1, Len(buckets))

\* for j in (0..bucket_len).rev() { running += buckets[j]; acc += running }
BucketReduce(acc, buckets) ==
    LET done ==
          ForRange(LAMBDA s, k :
                       LET running == PtAdd(s.running, buckets[Len(buckets) + 1 - k])
                       IN [running |-> running, acc |-> PtAdd(s.acc, running)],
                   [running |-> IDENTITY, acc |-> acc], 1, Len(buckets))
    IN done.acc

\* for win in (0..num_windows).rev() { w doublings; fill; reduce }
RECURSIVE WindowLoop(_, _, _, _, _, _)
WindowLoop(acc, win, w, bs, scalars_le, m) ==
    IF win < 0 THEN acc
    ELSE LET doubled == DoubleTimes(acc, w)
             bucket_len == Pow2(w) - 1
             buckets == FillBuckets(Repeat(IDENTITY, bucket_len), bs, scalars_le,
                                    win, w, m)
             reduced == BucketReduce(doubled, buckets)
         IN Eager(reduced, WindowLoop(reduced, win - 1, w, bs, scalars_le, m))

msm_pippenger(bs, ss) ==
    LET m == Min(Len(bs), Len(ss))
        w == optimal_window(m)
        num_windows == (NUM_BITS + w - 1) \div w
        scalars_le == [i \in 1..m |-> to_repr(ss[i])]
    IN IF m = 0 THEN IDENTITY
       ELSE WindowLoop(IDENTITY, num_windows - 1, w, bs, scalars_le, m)

commit_coeffs(cs) ==
    IF Len(cs) = 0 THEN IDENTITY
    ELSE LET bs == derive_bases_len(Len(cs))
         IN IF SeqPanics(bs) THEN Panic ELSE msm_pippenger(bs, cs)

\* Affine::to_bytes: one canonical string per point, the identity is all zeros
encode_point(p) == 2 * p

\* a decoder that drops the low bit instead of rejecting the string
decode_point_lenient(bytes) ==
    IF bytes \div 2 < PallasModulus THEN bytes \div 2 ELSE None

\* Affine::from_bytes: None for a string that is no canonical encoding
decode_point(bytes) ==
    IF bytes % 2 = 0 /\ bytes \div 2 < PallasModulus THEN bytes \div 2 ELSE None

add_points(a, b) == PtAdd(a, b)
mul_point(a, s) == PtMul(a, s)

map_vesta_scalar_to_pallas(vesta_bytes32) ==
    LET hash == Blake2b(DS_COEFF_MAP, <<vesta_bytes32>>)
    IN IF hash = Panic THEN Panic ELSE from_uniform_bytes(hash, PallasModulus)

\* circuit::msm_reference over params.bases:
\* for i in 0..m { acc += params.bases[i] * scalars[i] }
msm_reference(bs, ss) ==
    ForRange(LAMBDA acc, i : PtAdd(acc, PtMul(bs[i + 1], ss[i + 1])),
             IDENTITY, 0, Min(Len(ss), Len(bs)) - 1)

----------------------------------------------------------------------------
(* accum::poseidon and primitives::digest *)

hash_A_h(a_i, p_i) == Blake2b(DOM_A_H, <<a_i, p_i>>)
hash_S_h(s_i, p_i_prime) == Blake2b(DOM_S_H, <<s_i, p_i_prime>>)
derive_block_r(p_i, a_i) == Blake2b(DOM_BLOCK_R, <<p_i, a_i>>)

tachygram_to_fr(tag) ==
    from_uniform_bytes(Blake2b(DS_TACHYGRAM_TO_FR_V1, <<tag>>), VestaModulus)

(* consensus::digest *)

compute_orchard_root_digest(root) == Blake2b(DS_ORCH_ROOT_V1, <<root>>)
\* for nf in nullifiers { buf.extend_from_slice(nf) }
compute_nullifier_block_digest(nullifiers) == Blake2b(DS_NF_BLOCK_V1, nullifiers)
compute_commitment_delta_digest(commitments) == Blake2b(DS_CM_DELTA_V1, commitments)
\* BlockMMRLeaf::leaf_hash over the three digests of the leaf
leaf_hash(self) == Blake2b(DS_MMR_LEAF_V1, self)

----------------------------------------------------------------------------
(* accum::ser *)

\* length of BatchItem::key_hash, a [u8; 32]
KEY_HASH_LEN == 32

BatchItem(key_hash, present) == [key_hash |-> key_hash, present |-> present]

\* u64::to_le_bytes: the width low-order bytes of n, lowest first
RECURSIVE to_le_bytes(_, _)
to_le_bytes(n, width) ==
    IF width = 0 THEN <<>>
    ELSE <<n % 256>> \o to_le_bytes(n \div 256, width - 1)

\* the same encoding without out.push(if it.present { 1 } else { 0 })
serialize_batch_no_presence(b) ==
    ForRange(LAMBDA out, k : out \o b[k].key_hash,
             to_le_bytes(Len(b), 8), 1, Len(b))

\* out.extend(len as u64 LE); for it in &batch.0 { extend(key_hash); push(flag) }
serialize_batch(b) ==
    ForRange(LAMBDA out, k :
                 Append(out \o b[k].key_hash, IF b[k].present THEN 1 ELSE 0),
             to_le_bytes(Len(b), 8), 1, Len(b))

----------------------------------------------------------------------------
(* Outcomes of calls: a value returned, an Err(msg) returned, or a panic    *)

OkOut(v) == [st |-> "ok", msg |-> "", val |-> v]
ErrOut(m) == [st |-> "err", msg |-> m, val |-> <<>>]
PanicOut == [st |-> "panic", msg |-> "", val |-> <<>>]
NoOut == [st |-> "none", msg |-> "", val |-> <<>>]

\* Option::unwrap_or: the default is an argument, evaluated before the call
unwrap_or(opt, dflt) == IF opt = None THEN dflt ELSE opt

----------------------------------------------------------------------------
(* pcd::block_circuit, pcd::wallet_step *)

BlockPolyWitness(rs, cs, p_i, a_i) ==
    [roots |-> rs, coeffs |-> cs, p_i |-> p_i, a_i |-> a_i]

BlockPolyPublic(p_i_bytes, a_i_bytes, a_next_bytes) ==
    [p_i_bytes |-> p_i_bytes, a_i_bytes |-> a_i_bytes, a_next_bytes |-> a_next_bytes]

\* coeffs.iter().map(|x| map_vesta_scalar_to_pallas(&x.to_repr())).collect()
coeffs_to_pallas(cs) ==
    [k \in 1..Len(cs) |-> map_vesta_scalar_to_pallas(LeValue(fr_to_repr(cs[k])))]

prove_block_poly(w) ==
    LET p_i_bytes == encode_point(w.p_i)
        a_i_bytes == encode_point(w.a_i)
        coeffs_pallas == coeffs_to_pallas(w.coeffs)
        p_i_ref == commit_coeffs(coeffs_pallas)
        r_bytes == derive_block_r(p_i_bytes, a_i_bytes)
        r == from_uniform_halves(r_bytes, r_bytes, VestaModulus)
        lhs == ForRange(LAMBDA acc, k : FrMul(acc, FrSub(r, w.roots[k])),
                        1, 1, Len(w.roots))
        rhs == eval_horner(w.coeffs, r)
        h_i_bytes == hash_A_h(a_i_bytes, p_i_bytes)
        h_i == map_vesta_scalar_to_pallas(h_i_bytes)
        a_next == PtAdd(PtMul(w.a_i, h_i), w.p_i)
    IN IF SeqPanics(coeffs_pallas) THEN PanicOut
       ELSE IF p_i_ref = Panic THEN PanicOut
       ELSE IF encode_point(p_i_ref) # p_i_bytes
            THEN ErrOut("commitment mismatch for P_i")
       ELSE IF lhs # rhs THEN ErrOut("polynomial identity failed off-circuit")
       ELSE IF h_i = Panic THEN PanicOut
       ELSE OkOut(BlockPolyPublic(p_i_bytes, a_i_bytes, encode_point(a_next)))

\* api2::prove_block: prove_block_poly(wit)?
prove_block(w) == prove_block_poly(w)

WalletStepWitness(v, alpha_i, alpha_inv, p_i, s_i, a_i) ==
    [v |-> v, alpha_i |-> alpha_i, alpha_inv |-> alpha_inv,
     p_i |-> p_i, s_i |-> s_i, a_i |-> a_i]

WalletStepPublic(a_i_bytes, a_next_bytes, s_next_bytes) ==
    [a_i_bytes |-> a_i_bytes, a_next_bytes |-> a_next_bytes,
     s_next_bytes |-> s_next_bytes]

prove_wallet_step(w) ==
    LET g == g0
        alpha_bytes == LeValue(fr_to_repr(w.alpha_i))
        alpha_pallas == map_vesta_scalar_to_pallas(alpha_bytes)
        p_prime == PtAdd(w.p_i, PtMul(g, FqNeg(alpha_pallas)))
        p_i_bytes == encode_point(w.p_i)
        a_i_bytes == encode_point(w.a_i)
        s_i_bytes == encode_point(w.s_i)
        p_prime_bytes == encode_point(p_prime)
        h_i_bytes == hash_A_h(a_i_bytes, p_i_bytes)
        h_i_prime_bytes == hash_S_h(s_i_bytes, p_prime_bytes)
        h_i == map_vesta_scalar_to_pallas(h_i_bytes)
        h_i_prime == map_vesta_scalar_to_pallas(h_i_prime_bytes)
        a_next == PtAdd(PtMul(w.a_i, h_i), w.p_i)
        s_next == PtAdd(PtMul(w.s_i, h_i_prime), p_prime)
    IN IF FrMul(w.alpha_i, w.alpha_inv) # 1 THEN ErrOut("alpha inverse mismatch")
       ELSE IF g = Panic THEN PanicOut
       ELSE IF alpha_pallas = Panic THEN PanicOut
       ELSE IF h_i = Panic \/ h_i_prime = Panic THEN PanicOut
       ELSE OkOut(WalletStepPublic(a_i_bytes, encode_point(a_next),
                                   encode_point(s_next)))

----------------------------------------------------------------------------
(* consensus::accum_record, consensus::publisher *)

BlockAccumRecord(p_i, h_i, a_next, proof) ==
    [p_i |-> p_i, h_i |-> h_i, a_next |-> a_next, proof |-> proof]

from_ai_pi(a_i, p_i, proof) ==
    LET h_i == hash_A_h(a_i, p_i)
        dflt == g0
        a_i_aff == unwrap_or(decode_point(a_i), dflt)
        p_i_aff == unwrap_or(decode_point(p_i), dflt)
        h_scalar == map_vesta_scalar_to_pallas(h_i)
        a_next_aff == PtAdd(PtMul(a_i_aff, h_scalar), p_i_aff)
    IN IF dflt = Panic THEN PanicOut
       ELSE IF h_scalar = Panic THEN PanicOut
       ELSE OkOut(BlockAccumRecord(p_i, h_i, encode_point(a_next_aff), proof))

\* verify_step without the comparison of expected_h with self.h_i
verify_step_no_hash_check(self, a_i) ==
    LET a_i_aff == decode_point(a_i)
        p_i_aff == decode_point(self.p_i)
        h_scalar == map_vesta_scalar_to_pallas(self.h_i)
        a_next == PtAdd(PtMul(a_i_aff, h_scalar), p_i_aff)
    IN IF a_i_aff = None THEN "false"
       ELSE IF p_i_aff = None THEN "false"
       ELSE IF h_scalar = Panic THEN "panic"
       ELSE IF encode_point(a_next) = self.a_next THEN "true" ELSE "false"

\* "true", "false", or "panic" when the call aborts
verify_step(self, a_i) ==
    LET a_i_aff == decode_point(a_i)
        p_i_aff == decode_point(self.p_i)
        expected_h == hash_A_h(a_i, self.p_i)
        h_scalar == map_vesta_scalar_to_pallas(self.h_i)
        a_next == PtAdd(PtMul(a_i_aff, h_scalar), p_i_aff)
    IN IF a_i_aff = None THEN "false"
       ELSE IF p_i_aff = None THEN "false"
       ELSE IF expected_h # self.h_i THEN "false"
       ELSE IF h_scalar = Panic THEN "panic"
       ELSE IF encode_point(a_next) = self.a_next THEN "true" ELSE "false"

\* roots.dedup() alone: runs of equal neighbours collapse, the order stays
RECURSIVE dedup_unsorted(_)
dedup_unsorted(v) ==
    IF Len(v) <= 1 THEN v
    ELSE IF v[1] = v[2] THEN dedup_unsorted(Tail(v))
    ELSE <<v[1]>> \o dedup_unsorted(Tail(v))

\* roots.sort(); roots.dedup(): the distinct values in increasing order,
\* the k-th being the one with k - 1 smaller values
sort_dedup(v) ==
    LET S == {v[i] : i \in 1..Len(v)}
    IN [k \in 1..Cardinality(S) |->
           CHOOSE x \in S : Cardinality({y \in S : y < x}) = k - 1]

\* the batch size from which build_block_record takes the FFT path
FFT_MIN_ROOTS == 64

(* build_block_record, statement by statement: each stage is the rest of    *)
(* the function once the value named in its last parameter is computed     *)

\* publisher.rs:40-41, after prove_block returned
record_from_proof(p_i_bytes, proved) ==
    IF proved.st # "ok" THEN proved
    ELSE OkOut(BlockAccumRecord(
                 p_i_bytes,
                 hash_A_h(proved.val.a_i_bytes, proved.val.p_i_bytes),
                 proved.val.a_next_bytes, <<>>))

\* publisher.rs:33-38, after commit_coeffs
record_from_commitment(a_i, rs, cs, p_i_aff) ==
    LET dflt == g0
        a_i_aff == unwrap_or(decode_point(a_i), dflt)
    IN IF p_i_aff = Panic THEN PanicOut
       ELSE IF dflt = Panic THEN PanicOut
       ELSE record_from_proof(encode_point(p_i_aff),
                              prove_block(BlockPolyWitness(rs, cs, p_i_aff, a_i_aff)))

\* publisher.rs:32, after the coefficients were mapped to Pallas scalars
record_from_scalars(a_i, rs, cs, ss) ==
    IF SeqPanics(ss) THEN PanicOut
    ELSE record_from_commitment(a_i, rs, cs, commit_coeffs(ss))

\* publisher.rs:26-31, after the coefficients were computed
record_from_coeffs(a_i, rs, cs) ==
    record_from_scalars(a_i, rs, cs, coeffs_to_pallas(cs))

\* publisher.rs:19-23, after sort and dedup
record_from_roots(a_i, rs) ==
    record_from_coeffs(a_i, rs,
                       IF Len(rs) >= FFT_MIN_ROOTS THEN roots_to_coeffs_fft(rs)
                       ELSE roots_to_coeffs_parallel(rs))

\* publisher.rs:14-16: the grams mapped to the field, sorted, deduplicated
block_roots(grams) ==
    sort_dedup([i \in 1..Len(grams) |-> tachygram_to_fr(grams[i])])

build_block_record(a_i, grams) == record_from_roots(a_i, block_roots(grams))

----------------------------------------------------------------------------
(* accum::NullifierSMAWindow and consensus::mempool.  A call that takes    *)
(* &mut NullifierSMAWindow yields [out, window]: its outcome and the       *)
(* window it leaves.                                                       *)

NullifierSMAWindow(current_root, recent_roots, height) ==
    [current_root |-> current_root, recent_roots |-> recent_roots,
     height |-> height]

NullifierSMAWindow_new(height, initial_root) ==
    NullifierSMAWindow(initial_root, <<>>, height)

\* recent_roots.insert(0, current_root); the batch is not looked at
apply_batch(self, batch_) ==
    [out |-> self.current_root,
     window |-> NullifierSMAWindow(self.current_root,
                                   <<self.current_root>> \o self.recent_roots,
                                   self.height)]

is_fresh(self, key_hash) == TRUE

window_len(self) == Len(self.recent_roots) + 1

TachyonBundle(nullifiers, commitments) ==
    [nullifiers |-> nullifiers, commitments |-> commitments]

RECURSIVE admit_tx_loop(_, _)
admit_tx_loop(nullifiers, window_) ==
    IF nullifiers = <<>> THEN OkOut(<<>>)
    ELSE IF ~is_fresh(window_, Head(nullifiers)) THEN ErrOut("duplicate nullifier")
    ELSE admit_tx_loop(Tail(nullifiers), window_)

admit_tx(bundle, window_) ==
    [out |-> admit_tx_loop(bundle.nullifiers, window_), window |-> window_]

RECURSIVE all_of(_, _)
all_of(bundles, field) ==
    IF bundles = <<>> THEN <<>>
    ELSE (IF field = "nullifiers" THEN Head(bundles).nullifiers
          ELSE Head(bundles).commitments) \o all_of(Tail(bundles), field)

verify_block(bundles, window_) ==
    LET len == window_len(window_)
        nf_digest == compute_nullifier_block_digest(all_of(bundles, "nullifiers"))
        cm_delta_digest == compute_commitment_delta_digest(all_of(bundles, "commitments"))
        orch_digest == compute_orchard_root_digest(0)
    IN IF Panic \in {nf_digest, cm_delta_digest, orch_digest} THEN
           [out |-> PanicOut, window |-> window_]
       ELSE IF leaf_hash(<<orch_digest, nf_digest, cm_delta_digest>>) = Panic THEN
           [out |-> PanicOut, window |-> window_]
       ELSE [out |-> OkOut(<<>>), window |-> window_]

----------------------------------------------------------------------------
(* primitives::encode.  A byte string is a sequence of numbers below 256.  *)
(* An encoder takes the prefix written so far (out: &mut Vec<u8>) and       *)
(* yields the longer string.  A reader takes the cursor (data: &mut &[u8]) *)
(* and yields [out, data]: its outcome and the cursor it leaves.           *)

ENC_V1 == 1
TACHYGRAM_LEN == 32
ROOT_LEN == 32
REDPALLAS_SIG_LEN == 64
TXID_LEN == 32

RangeAnchor(min_pos, max_pos, root_min, root_max, frontier_attestation) ==
    [min_pos |-> min_pos, max_pos |-> max_pos, root_min |-> root_min,
     root_max |-> root_max, frontier_attestation |-> frontier_attestation]

Tachystamp(range_anchor, tachygrams, auth, pcd_proof) ==
    [range_anchor |-> range_anchor, tachygrams |-> tachygrams,
     auth |-> auth, pcd_proof |-> pcd_proof]

AggregateProof(txids, proof) == [txids |-> txids, proof |-> proof]

\* u32::to_be_bytes, u64::to_be_bytes: the width low-order bytes, highest first
RECURSIVE to_be_bytes(_, _)
to_be_bytes(n, width) ==
    IF width = 0 THEN <<>>
    ELSE to_be_bytes(n \div 256, width - 1) \o <<n % 256>>

\* u32::from_be_bytes, u64::from_be_bytes
RECURSIVE from_be_bytes(_)
from_be_bytes(buf) ==
    IF Len(buf) = 0 THEN 0
    ELSE 256 * from_be_bytes(SubSeq(buf, 1, Len(buf) - 1)) + buf[Len(buf)]

\* data[k..]
SliceFrom(data, k) == SubSeq(data, k + 1, Len(data))

\* a length prefix written lowest byte first
encode_u32_le(v, out) == out \o to_le_bytes(v, 4)

encode_u8(v, out) == Append(out, v)
encode_u32(v, out) == out \o to_be_bytes(v, 4)
encode_u64(v, out) == out \o to_be_bytes(v, 8)

CurOk(v, data) == [out |-> OkOut(v), data |-> data]
CurErr(m, data) == [out |-> ErrOut(m), data |-> data]
CurAbort(data) == [out |-> PanicOut, data |-> data]

read_u8(data) ==
    IF Len(data) < 1 THEN CurErr("unexpected EOF", data)
    ELSE CurOk(data[1], SliceFrom(data, 1))

read_u32(data) ==
    IF Len(data) < 4 THEN CurErr("unexpected EOF", data)
    ELSE CurOk(from_be_bytes(SubSeq(data, 1, 4)), SliceFrom(data, 4))

read_u64(data) ==
    IF Len(data) < 8 THEN CurErr("unexpected EOF", data)
    ELSE CurOk(from_be_bytes(SubSeq(data, 1, 8)), SliceFrom(data, 8))

encode_bytes(bytes, out) == encode_u32(Len(bytes), out) \o bytes

\* read_vec once read_u32 has answered
read_vec_body(len) ==
    IF len.out.st # "ok" THEN len
    ELSE IF Len(len.data) < len.out.val THEN CurErr("unexpected EOF", len.data)
    ELSE CurOk(SubSeq(len.data, 1, len.out.val), SliceFrom(len.data, len.out.val))

read_vec(data) == read_vec_body(read_u32(data))

read_fixed(N, data) ==
    IF Len(data) < N THEN CurErr("unexpected EOF", data)
    ELSE CurOk(SubSeq(data, 1, N), SliceFrom(data, N))

\* for x in v { out.extend_from_slice(x) }
RECURSIVE extend_each(_, _)
extend_each(v, out) ==
    IF v = <<>> THEN out ELSE extend_each(Tail(v), out \o Head(v))

encode_range_anchor(a, out) ==
    encode_bytes(a.frontier_attestation,
                 encode_u64(a.max_pos, encode_u64(a.min_pos, encode_u8(ENC_V1, out)))
                     \o a.root_min \o a.root_max)

\* the reads of a decoder in order, each followed by `?`; vals collects
\* what they returned
read_one(kind, data) ==
    CASE kind = "u8" -> read_u8(data)
      [] kind = "u64" -> read_u64(data)
      [] kind = "root" -> read_fixed(ROOT_LEN, data)
      [] kind = "vec" -> read_vec(data)

RECURSIVE read_then(_, _, _)
read_then(kinds, last, vals) ==
    IF last.out.st # "ok" THEN last
    ELSE IF kinds = <<>> THEN CurOk(Append(vals, last.out.val), last.data)
    ELSE read_then(Tail(kinds), read_one(Head(kinds), last.data),
                   Append(vals, last.out.val))

\* decode_range_anchor once every read has answered
range_anchor_of(r) ==
    IF r.out.st # "ok" THEN r
    ELSE CurOk(RangeAnchor(r.out.val[2], r.out.val[3], r.out.val[4],
                           r.out.val[5], r.out.val[6]), r.data)

decode_range_anchor(data) ==
    range_anchor_of(read_then(<<"u64", "u64", "root", "root", "vec">>,
                              read_u8(data), <<>>))

encode_vec_tachygram(v, out) == extend_each(v, encode_u32(Len(v), out))

\* the largest request Vec::with_capacity is sure to be granted, in bytes:
\* beyond it a 32-bit build panics ("capacity overflow") and the allocator
\* of a 64-bit build may refuse, which aborts the process
ALLOC_SURE_BYTES == 2147483647

\* Vec::with_capacity(len) for elements of elem_len bytes; granted tells
\* what the allocator answers to a request it may refuse
with_capacity_fails(len, elem_len, granted) ==
    len > ALLOC_SURE_BYTES \div elem_len /\ ~granted

\* for _ in 0..len { v.push(read_fixed::<N>(data)?) }
RECURSIVE read_items(_, _, _, _)
read_items(len, N, data, v) ==
    IF len = 0 THEN CurOk(v, data)
    ELSE IF Len(data) < N THEN CurErr("unexpected EOF", data)
    ELSE read_items(len - 1, N, SliceFrom(data, N), Append(v, SubSeq(data, 1, N)))

\* a vector decoder once read_u32 has answered
vec_items(len, N, granted) ==
    IF len.out.st # "ok" THEN len
    ELSE IF with_capacity_fails(len.out.val, N, granted) THEN CurAbort(len.data)
    ELSE read_items(len.out.val, N, len.data, <<>>)

decode_vec_tachygram(data, granted) ==
    vec_items(read_u32(data), TACHYGRAM_LEN, granted)

encode_vec_txid(v, out) == extend_each(v, encode_u32(Len(v), out))

decode_vec_txid(data, granted) == vec_items(read_u32(data), TXID_LEN, granted)

Tachystamp_to_canonical_bytes(self) ==
    encode_bytes(self.pcd_proof,
                 encode_vec_tachygram(self.tachygrams,
                                      encode_range_anchor(self.range_anchor, <<ENC_V1>>))
                     \o self.auth)

(* Tachystamp::from_canonical_bytes, statement by statement: each stage is  *)
(* the rest of the function once the read named in its last parameter has  *)
(* answered                                                                *)

stamp_from_proof(range_anchor, tachygrams, auth, pcd_proof) ==
    IF pcd_proof.out.st # "ok" THEN pcd_proof.out
    ELSE IF pcd_proof.data # <<>> THEN ErrOut("trailing bytes in Tachystamp")
    ELSE OkOut(Tachystamp(range_anchor, tachygrams, auth, pcd_proof.out.val))

stamp_from_auth(range_anchor, tachygrams, auth) ==
    IF auth.out.st # "ok" THEN auth.out
    ELSE stamp_from_proof(range_anchor, tachygrams, auth.out.val, read_vec(auth.data))

stamp_from_tachygrams(range_anchor, tachygrams) ==
    IF tachygrams.out.st # "ok" THEN tachygrams.out
    ELSE stamp_from_auth(range_anchor, tachygrams.out.val,
                         read_fixed(REDPALLAS_SIG_LEN, tachygrams.data))

stamp_from_anchor(range_anchor, granted) ==
    IF range_anchor.out.st # "ok" THEN range_anchor.out
    ELSE stamp_from_tachygrams(range_anchor.out.val,
                               decode_vec_tachygram(range_anchor.data, granted))

stamp_from_version(ver, granted) ==
    IF ver.out.st # "ok" THEN ver.out
    ELSE IF ver.out.val # ENC_V1 THEN ErrOut("unsupported encoding version")
    ELSE stamp_from_anchor(decode_range_anchor(ver.data), granted)

Tachystamp_from_canonical_bytes(data, granted) ==
    stamp_from_version(read_u8(data), granted)

AggregateProof_to_canonical_bytes(self) ==
    encode_bytes(self.proof, encode_vec_txid(self.txids, <<ENC_V1>>))

aggregate_from_proof(txids, proof) ==
    IF proof.out.st # "ok" THEN proof.out
    ELSE IF proof.data # <<>> THEN ErrOut("trailing bytes in AggregateProof")
    ELSE OkOut(AggregateProof(txids, proof.out.val))

aggregate_from_txids(txids) ==
    IF txids.out.st # "ok" THEN txids.out
    ELSE aggregate_from_proof(txids.out.val, read_vec(txids.data))

aggregate_from_version(ver, granted) ==
    IF ver.out.st # "ok" THEN ver.out
    ELSE IF ver.out.val # ENC_V1 THEN ErrOut("unsupported encoding version")
    ELSE aggregate_from_txids(decode_vec_txid(ver.data, granted))

AggregateProof_from_canonical_bytes(data, granted) ==
    aggregate_from_version(read_u8(data), granted)

----------------------------------------------------------------------------
(* ragu-lite: the Fiat-Shamir transcript and the PCD step.  A byte string  *)
(* is a sequence of numbers below 256.  BLAKE3 is free of collisions: a    *)
(* digest is its preimage between two marks that are no bytes.             *)

Blake3(input) == <<256>> \o input \o <<257>>

\* b"ragu-lite/pcd", b"ragu-lite/step", b"context", b"proof"
LABEL_PCD == <<114, 97, 103, 117, 45, 108, 105, 116, 101, 47, 112, 99, 100>>
LABEL_STEP == <<114, 97, 103, 117, 45, 108, 105, 116, 101, 47, 115, 116, 101, 112>>
LABEL_CONTEXT == <<99, 111, 110, 116, 101, 120, 116>>
LABEL_PROOF == <<112, 114, 111, 111, 102>>

FsTranscript_default == <<>>
absorb_bytes(state, bytes) == state \o bytes
absorb(state, bytes) == absorb_bytes(state, bytes)
FsTranscript_new(label) == absorb(<<>>, label)
absorb_field(state, f) == state \o fr_to_repr(f)
challenge_bytes(state, label) == Blake3(state \o label)

RECURSIVE absorb_inputs(_, _)
absorb_inputs(state, inputs) ==
    IF inputs = <<>> THEN state
    ELSE absorb_inputs(absorb_field(state, Head(inputs)), Tail(inputs))

PcdData(old_root, new_root, metadata, accumulator) ==
    [old_root |-> old_root, new_root |-> new_root,
     metadata |-> metadata, accumulator |-> accumulator]

Pcd(data, instance, inner, depth) ==
    [data |-> data, instance |-> instance, inner |-> inner, depth |-> depth]

\* the driver's instance after the four input_public calls of prove_step
Instance(data) ==
    [inputs |-> <<data.old_root, data.new_root, data.metadata, data.accumulator>>]

backend_prove(inst, tr) ==
    LET t == absorb(absorb_inputs(FsTranscript_new(LABEL_PCD), inst.inputs),
                    challenge_bytes(tr, LABEL_CONTEXT))
    IN challenge_bytes(t, LABEL_PROOF)

backend_verify(inst, proof) ==
    LET t == absorb(absorb_inputs(FsTranscript_new(LABEL_PCD), inst.inputs),
                    challenge_bytes(FsTranscript_default, LABEL_CONTEXT))
        recomputed == challenge_bytes(t, LABEL_PROOF)
    IN recomputed = proof

\* prev is <<>> for None and <<p>> for Some(p)
prev_depth_or(prev, dflt, inc) == IF prev = <<>> THEN dflt ELSE prev[1].depth + inc

\* a step whose proof keeps the depth of its predecessor
prove_step_same_depth(prev, data) ==
    LET instance == Instance(data)
        tr == absorb(FsTranscript_new(LABEL_STEP),
                     to_le_bytes(prev_depth_or(prev, 0, 0), 8))
    IN OkOut(Pcd(data, instance, backend_prove(instance, tr),
                 prev_depth_or(prev, 1, 0)))

prove_step(prev, data) ==
    LET instance == Instance(data)
        tr == absorb(FsTranscript_new(LABEL_STEP),
                     to_le_bytes(prev_depth_or(prev, 0, 0), 8))
    IN OkOut(Pcd(data, instance, backend_prove(instance, tr),
                 prev_depth_or(prev, 1, 1)))

pcd_verify_step(p) ==
    IF backend_verify(p.instance, p.inner) THEN OkOut(<<>>)
    ELSE ErrOut("Verification")

----------------------------------------------------------------------------
(* Polynomial-engine harness: the inputs are drawn at Init, every action    *)
(* applies one function of accum::poly to them.                            *)

RootVals == 0..MaxRootVal

PolyIdle ==
    /\ roots = <<>>
    /\ xpt = 0
    /\ coeffs = <<>>
    /\ coeffsFft = <<>>
    /\ hornerVal = NoVal
    /\ directVal = NoVal

ParIdle == tasks = <<>>

MsmIdle ==
    /\ bases = <<>>
    /\ scalars = <<>>
    /\ msmOut = NoPoint
    /\ refOut = NoPoint

NoRec == BlockAccumRecord(0, 0, 0, <<"none">>)
NoBuilt == [op |-> "none", arg |-> <<>>, out |-> NoOut]
NoWit == WalletStepWitness(0, 0, 0, 0, 0, 0)
NoCall == [fn |-> "none", arg |-> <<>>, personal |-> "", st |-> "none"]

ChainIdle ==
    /\ accA = 0
    /\ rec = NoRec
    /\ built = NoBuilt
    /\ verdict = "none"
    /\ tampered = "none"

WalletIdle ==
    /\ wit = NoWit
    /\ walletOut = NoOut

LowIdle == call = NoCall

NoBlockWit == BlockPolyWitness(<<>>, <<>>, IDENTITY, IDENTITY)

BlockIdle ==
    /\ blockWit = NoBlockWit
    /\ blockOut = NoOut

SerIdle ==
    /\ batch = <<>>
    /\ enc = <<>>

PadIdle ==
    /\ padVec = <<>>
    /\ padOld = <<>>
    /\ padTarget = -1

BatchIdle ==
    /\ batches = <<>>
    /\ batchFn = "none"
    /\ batchSlots = <<>>
    /\ batchOut = NoOut

NoChecked == [idx |-> 0, out |-> NoOut]

PcdIdle ==
    /\ pcdChain = <<>>
    /\ pcdChecked = NoChecked

NoPoolCall == [op |-> "none", arg |-> <<>>, out |-> NoOut]

PoolIdle ==
    /\ window = NullifierSMAWindow_new(0, 0)
    /\ inserted = {}
    /\ poolOut = NoPoolCall

NoRead == [op |-> "none", out |-> NoOut, rest |-> <<>>]

CodecIdle ==
    /\ cval = [kind |-> "none", v |-> <<>>]
    /\ cbytes = <<>>
    /\ cshape = "empty"
    /\ cout = NoRead

\* the harnesses of the proof-carrying data, the mempool and the codecs idle
LateIdle ==
    /\ PcdIdle
    /\ PoolIdle
    /\ CodecIdle

\* the harnesses of the block step, the encoding and the batch engine idle
MidIdle ==
    /\ BlockIdle
    /\ SerIdle
    /\ PadIdle
    /\ BatchIdle

MoreIdle ==
    /\ MidIdle
    /\ LateIdle

\* the harnesses of the engines, the chain and the wallet idle
FirstIdle ==
    /\ PolyIdle
    /\ ParIdle
    /\ MsmIdle
    /\ ChainIdle
    /\ WalletIdle
    /\ LowIdle

InitPoly ==
    /\ pc = "poly"
    /\ roots \in SeqsUpTo(RootVals, MaxRoots)
    /\ xpt \in RootVals \cup {VestaModulus - 1}
    /\ coeffs = <<>>
    /\ coeffsFft = <<>>
    /\ hornerVal = NoVal
    /\ directVal = NoVal
    /\ ParIdle
    /\ MsmIdle
    /\ ChainIdle
    /\ WalletIdle
    /\ LowIdle
    /\ MoreIdle

CallRootsToCoeffs ==
    /\ pc = "poly"
    /\ coeffs = <<>>
    /\ coeffs' = roots_to_coeffs(roots)
    /\ UNCHANGED <<roots, xpt, coeffsFft, hornerVal, directVal, notPoly>>

CallRootsToCoeffsFft ==
    /\ pc = "poly"
    /\ coeffsFft = <<>>
    /\ coeffsFft' = roots_to_coeffs_fft(roots)
    /\ UNCHANGED <<roots, xpt, coeffs, hornerVal, directVal, notPoly>>

CallEvalHorner ==
    /\ pc = "poly"
    /\ coeffs # <<>>
    /\ hornerVal = NoVal
    /\ hornerVal' = eval_horner(coeffs, xpt)
    /\ UNCHANGED <<roots, xpt, coeffs, coeffsFft, directVal, notPoly>>

CallEvalFromRoots ==
    /\ pc = "poly"
    /\ directVal = NoVal
    /\ directVal' = eval_from_roots(roots, xpt)
    /\ UNCHANGED <<roots, xpt, coeffs, coeffsFft, hornerVal, notPoly>>

NextPoly ==
    \/ CallRootsToCoeffs
    \/ CallRootsToCoeffsFft
    \/ CallEvalHorner
    \/ CallEvalFromRoots

SpecPoly == InitPoly /\ [][NextPoly]_vars

----------------------------------------------------------------------------
(* roots_to_coeffs_parallel as rayon runs it: rayon::join(left, right) lets *)
(* the two halves run in either order or interleaved on different workers.  *)
(* A task is one activation of roots_to_coeffs_divide_conquer.              *)

Task(rs, st, res) == [rs |-> rs, st |-> st, res |-> res]

InitPar ==
    /\ pc = "par"
    /\ roots \in SeqsUpTo(RootVals, MaxRoots)
    /\ xpt = 0
    /\ coeffs = <<>>
    /\ coeffsFft = <<>>
    /\ hornerVal = NoVal
    /\ directVal = NoVal
    /\ tasks = <<>>
    /\ MsmIdle
    /\ ChainIdle
    /\ WalletIdle
    /\ LowIdle
    /\ MoreIdle

\* the caller enters roots_to_coeffs_parallel(roots)
ParCall ==
    /\ pc = "par"
    /\ tasks = <<>>
    /\ tasks' = (1 :> Task(roots, "ready", <<>>))
    /\ UNCHANGED notPar

\* a worker runs an activation up to its return (base cases) or its join
ParRun(n) ==
    /\ pc = "par"
    /\ n \in DOMAIN tasks
    /\ tasks[n].st = "ready"
    /\ LET rs == tasks[n].rs
           mid == Len(rs) \div 2
       IN tasks' =
            IF Len(rs) = 0 THEN [tasks EXCEPT ![n] = Task(rs, "done", <<1>>)]
            ELSE IF Len(rs) = 1
                 THEN [tasks EXCEPT ![n] = Task(rs, "done", <<FrNeg(rs[1]), 1>>)]
            ELSE ((2 * n) :> Task(SubSeq(rs, 1, mid), "ready", <<>>))
                 @@ ((2 * n + 1) :> Task(SubSeq(rs, mid + 1, Len(rs)), "ready", <<>>))
                 @@ [tasks EXCEPT ![n] = Task(rs, "joining", <<>>)]
    /\ UNCHANGED notPar

\* both closures of the join have returned: convolve(&a, &b)
ParJoin(n) ==
    /\ pc = "par"
    /\ n \in DOMAIN tasks
    /\ tasks[n].st = "joining"
    /\ tasks[2 * n].st = "done"
    /\ tasks[2 * n + 1].st = "done"
    /\ tasks' = [tasks EXCEPT ![n] =
                    Task(tasks[n].rs, "done",
                         convolve(tasks[2 * n].res, tasks[2 * n + 1].res))]
    /\ UNCHANGED notPar

NextPar ==
    \/ ParCall
    \/ \E n \in DOMAIN tasks : ParRun(n)
    \/ \E n \in DOMAIN tasks : ParJoin(n)

SpecPar == InitPar /\ [][NextPar]_vars

\* roots_to_coeffs_parallel has returned
ParReturned == 1 \in DOMAIN tasks /\ tasks[1].st = "done"

----------------------------------------------------------------------------
(* MSM harness: msm_pippenger and circuit::msm_reference on the same input  *)

MsmPoints == {0, 1, 5, PallasModulus - 1}
MsmScalars == {0, 1, 8, 100, PallasModulus - 1}

InitMsm ==
    /\ pc = "msm"
    /\ \/ /\ bases \in SeqsUpTo(MsmPoints, MaxMsmLen)
          /\ scalars \in SeqsUpTo(MsmScalars, MaxMsmLen)
       \/ \E b0 \in MsmPoints, s0 \in MsmScalars, extra \in 0..1,
             len \in {LongMsmLen, LongerMsmLen} :
            /\ bases = [i \in 1..(len + extra) |-> (b0 + 3 * i) % PallasModulus]
            /\ scalars = [i \in 1..len |-> (s0 + 5 * i) % PallasModulus]
    /\ msmOut = NoPoint
    /\ refOut = NoPoint
    /\ PolyIdle
    /\ ParIdle
    /\ ChainIdle
    /\ WalletIdle
    /\ LowIdle
    /\ MoreIdle

CallMsmPippenger ==
    /\ pc = "msm"
    /\ msmOut = NoPoint
    /\ msmOut' = msm_pippenger(bases, scalars)
    /\ UNCHANGED <<bases, scalars, refOut, notMsm>>

\* ChunkedMSMParams { bases, .. } with the harness's bases
CallMsmReference ==
    /\ pc = "msm"
    /\ refOut = NoPoint
    /\ refOut' = msm_reference(bases, scalars)
    /\ UNCHANGED <<bases, scalars, msmOut, notMsm>>

NextMsm ==
    \/ CallMsmPippenger
    \/ CallMsmReference

SpecMsm == InitMsm /\ [][NextMsm]_vars

----------------------------------------------------------------------------
(* Chain harness: a verifier holding prior-state bytes accA.  Records reach *)
(* it from the two constructors or from the network (any bytes), and may be *)
(* altered on the way to a second verification.                             *)

\* prior states and commitments: encodings of the identity, of two other
\* points, and a string that is no point encoding
ChainBytes == {encode_point(IDENTITY), encode_point(GENERATOR), encode_point(5), 3}
GramVals == 1..MaxGramVal
TamperBytes == {0, 1, 2, 11, 255}

InitChain ==
    /\ pc = "chain"
    /\ accA \in ChainBytes
    /\ rec = NoRec
    /\ built = NoBuilt
    /\ verdict = "none"
    /\ tampered = "none"
    /\ PolyIdle
    /\ ParIdle
    /\ MsmIdle
    /\ WalletIdle
    /\ LowIdle
    /\ MoreIdle

\* the record a constructor call leaves in hand
Taken(out, old) == IF out.st = "ok" THEN out.val ELSE old

FromAiPi(p_i) ==
    /\ pc = "chain"
    /\ tampered = "none"
    /\ LET out == from_ai_pi(accA, p_i, <<>>)
       IN /\ built' = [op |-> "from_ai_pi", arg |-> <<p_i>>, out |-> out]
          /\ rec' = Taken(out, NoRec)
    /\ verdict' = "none"
    /\ UNCHANGED <<accA, tampered, notChain>>

BuildBlockRecord(grams) ==
    /\ pc = "chain"
    /\ tampered = "none"
    /\ LET out == build_block_record(accA, grams)
       IN /\ built' = [op |-> "build_block_record", arg |-> grams, out |-> out]
          /\ rec' = Taken(out, NoRec)
    /\ verdict' = "none"
    /\ UNCHANGED <<accA, tampered, notChain>>

\* a record arrives from a peer: any commitment, the matching or another
\* transition hash, any claimed next state
Receive(p_i, h_off, a_next) ==
    /\ pc = "chain"
    /\ tampered = "none"
    /\ rec' = BlockAccumRecord(p_i, hash_A_h(accA, p_i) + h_off, a_next, <<>>)
    /\ built' = NoBuilt
    /\ verdict' = "none"
    /\ UNCHANGED <<accA, tampered, notChain>>

VerifyStep ==
    /\ pc = "chain"
    /\ rec # NoRec
    /\ verdict = "none"
    /\ verdict' = verify_step(rec, accA)
    /\ UNCHANGED <<accA, rec, built, tampered, notChain>>

\* one byte of a_i, p_i or h_i is changed in a record verify_step has run on
\* and not rejected; everything else stays as it was
Tamper(field, k, v) ==
    /\ pc = "chain"
    /\ tampered = "none"
    /\ verdict \in {"true", "panic"}
    /\ \/ /\ field = "a_i"
          /\ v # ByteAt(accA, k)
          /\ accA' = SetByte(accA, k, v)
          /\ rec' = rec
       \/ /\ field = "p_i"
          /\ v # ByteAt(rec.p_i, k)
          /\ rec' = [rec EXCEPT !.p_i = SetByte(rec.p_i, k, v)]
          /\ accA' = accA
       \/ /\ field = "h_i"
          /\ v # ByteAt(rec.h_i, k)
          /\ rec' = [rec EXCEPT !.h_i = SetByte(rec.h_i, k, v)]
          /\ accA' = accA
    /\ tampered' = field
    /\ verdict' = "none"
    /\ UNCHANGED <<built, notChain>>

\* a block large enough for the FFT path, published on a fresh chain only
LongGrams == [i \in 1..FFT_MIN_ROOTS |-> i]

NextChain ==
    \/ \E p_i \in ChainBytes : FromAiPi(p_i)
    \/ \E grams \in SeqsUpTo(GramVals, MaxGrams) \cup
                     (IF built = NoBuilt /\ rec = NoRec THEN {LongGrams} ELSE {}) :
          BuildBlockRecord(grams)
    \/ \E p_i \in ChainBytes, h_off \in 0..1, a_next \in ChainBytes :
          Receive(p_i, h_off, a_next)
    \/ VerifyStep
    \/ \E field \in {"a_i", "p_i", "h_i"}, k \in 0..MaxTamperByte, v \in TamperBytes :
          Tamper(field, k, v)

SpecChain == InitChain /\ [][NextChain]_vars

----------------------------------------------------------------------------
(* Wallet harness: prove_wallet_step on a drawn witness *)

AlphaVals == {0, 1, 2, 9, 129, 200}
WalletPoints == {IDENTITY, GENERATOR, 5}

InitWallet ==
    /\ pc = "wallet"
    /\ \E v \in 0..1, alpha_i \in AlphaVals, alpha_inv \in AlphaVals,
          p_i \in WalletPoints, s_i \in WalletPoints, a_i \in WalletPoints :
          wit = WalletStepWitness(v, alpha_i, alpha_inv, p_i, s_i, a_i)
    /\ walletOut = NoOut
    /\ PolyIdle
    /\ ParIdle
    /\ MsmIdle
    /\ ChainIdle
    /\ LowIdle
    /\ MoreIdle

CallProveWalletStep ==
    /\ pc = "wallet"
    /\ walletOut = NoOut
    /\ walletOut' = prove_wallet_step(wit)
    /\ UNCHANGED <<wit, notWallet>>

NextWallet == CallProveWalletStep

SpecWallet == InitWallet /\ [][NextWallet]_vars

----------------------------------------------------------------------------
(* Low-level harness: one call of the Basis Generator, the scalar map, the  *)
(* commitment or a roots_to_coeffs variant; personal is the personalization *)
(* the call hands to BLAKE2b ("" when it hashes nothing)                    *)

\* whether a call returned its value
Returned(v) == IF v = Panic THEN "panic" ELSE "returned"

InitLow ==
    /\ pc = "low"
    /\ call = NoCall
    /\ PolyIdle
    /\ ParIdle
    /\ MsmIdle
    /\ ChainIdle
    /\ WalletIdle
    /\ MoreIdle

CallDeriveBase(chunk, idx) ==
    /\ pc = "low"
    /\ call = NoCall
    /\ call' = [fn |-> "derive_base", arg |-> <<chunk, idx>>,
                personal |-> H2C_DOMAIN,
                st |-> Returned(derive_base(chunk, idx))]
    /\ UNCHANGED notLow

CallMapVesta(bytes) ==
    /\ pc = "low"
    /\ call = NoCall
    /\ call' = [fn |-> "map_vesta_scalar_to_pallas", arg |-> <<bytes>>,
                personal |-> DS_COEFF_MAP,
                st |-> Returned(map_vesta_scalar_to_pallas(bytes))]
    /\ UNCHANGED notLow

CallCommitCoeffs(cs) ==
    /\ pc = "low"
    /\ call = NoCall
    /\ call' = [fn |-> "commit_coeffs", arg |-> cs,
                personal |-> IF Len(cs) = 0 THEN "" ELSE H2C_DOMAIN,
                st |-> Returned(commit_coeffs(cs))]
    /\ UNCHANGED notLow

\* roots_to_coeffs, roots_to_coeffs_parallel, roots_to_coeffs_fft: no
\* statement in them can abort on a root vector
CallRootsVariant(fn, rs) ==
    /\ pc = "low"
    /\ call = NoCall
    /\ LET cs == CASE fn = "roots_to_coeffs" -> roots_to_coeffs(rs)
                   [] fn = "roots_to_coeffs_parallel" -> roots_to_coeffs_parallel(rs)
                   [] fn = "roots_to_coeffs_fft" -> roots_to_coeffs_fft(rs)
       IN call' = [fn |-> fn, arg |-> rs, personal |-> "",
                   st |-> IF Len(cs) = Len(rs) + 1 THEN "returned" ELSE "panic"]
    /\ UNCHANGED notLow

\* hash_A_h, hash_S_h, derive_block_r on two 32-byte strings
CallAccumHash(fn, a, b) ==
    /\ pc = "low"
    /\ call = NoCall
    /\ call' = CASE fn = "hash_A_h" ->
                       [fn |-> fn, arg |-> <<a, b>>, personal |-> DOM_A_H,
                        st |-> Returned(hash_A_h(a, b))]
                  [] fn = "hash_S_h" ->
                       [fn |-> fn, arg |-> <<a, b>>, personal |-> DOM_S_H,
                        st |-> Returned(hash_S_h(a, b))]
                  [] fn = "derive_block_r" ->
                       [fn |-> fn, arg |-> <<a, b>>, personal |-> DOM_BLOCK_R,
                        st |-> Returned(derive_block_r(a, b))]
    /\ UNCHANGED notLow

\* the block digests of consensus::digest and tachygram_to_fr on a message
\* of 32-byte strings (one for the orchard root and the tachygram, three
\* for the MMR leaf)
CallBlockDigest(fn, msg) ==
    /\ pc = "low"
    /\ call = NoCall
    /\ fn \in {"compute_orchard_root_digest", "tachygram_to_fr"} => Len(msg) = 1
    /\ fn = "leaf_hash" => Len(msg) = 3
    /\ call' = CASE fn = "compute_orchard_root_digest" ->
                       [fn |-> fn, arg |-> msg, personal |-> DS_ORCH_ROOT_V1,
                        st |-> Returned(compute_orchard_root_digest(msg[1]))]
                  [] fn = "compute_nullifier_block_digest" ->
                       [fn |-> fn, arg |-> msg, personal |-> DS_NF_BLOCK_V1,
                        st |-> Returned(compute_nullifier_block_digest(msg))]
                  [] fn = "compute_commitment_delta_digest" ->
                       [fn |-> fn, arg |-> msg, personal |-> DS_CM_DELTA_V1,
                        st |-> Returned(compute_commitment_delta_digest(msg))]
                  [] fn = "leaf_hash" ->
                       [fn |-> fn, arg |-> msg, personal |-> DS_MMR_LEAF_V1,
                        st |-> Returned(leaf_hash(msg))]
                  [] fn = "tachygram_to_fr" ->
                       [fn |-> fn, arg |-> msg, personal |-> DS_TACHYGRAM_TO_FR_V1,
                        st |-> Returned(tachygram_to_fr(msg[1]))]
    /\ UNCHANGED notLow

\* a vector of bases came back unless a derive_base inside the loop panicked
BasesReturned(bs) == IF SeqPanics(bs) THEN "panic" ELSE "returned"

CallDeriveBasesLen(n) ==
    /\ pc = "low"
    /\ call = NoCall
    /\ call' = [fn |-> "derive_bases_len", arg |-> <<n>>,
                personal |-> IF n = 0 THEN "" ELSE H2C_DOMAIN,
                st |-> BasesReturned(derive_bases_len(n))]
    /\ UNCHANGED notLow

CallDeriveAllBases ==
    /\ pc = "low"
    /\ call = NoCall
    /\ call' = [fn |-> "derive_all_bases", arg |-> <<>>, personal |-> H2C_DOMAIN,
                st |-> BasesReturned(derive_all_bases)]
    /\ UNCHANGED notLow

CallG0 ==
    /\ pc = "low"
    /\ call = NoCall
    /\ call' = [fn |-> "g0", arg |-> <<>>, personal |-> H2C_DOMAIN,
                st |-> Returned(g0)]
    /\ UNCHANGED notLow

\* every string of the encoding's length, canonical or not
PointStrings == 0..(2 * PallasModulus + 1)

CallEncodePoint(p) ==
    /\ pc = "low"
    /\ call = NoCall
    /\ call' = [fn |-> "encode_point", arg |-> <<p>>, personal |-> "",
                st |-> "returned", val |-> encode_point(p)]
    /\ UNCHANGED notLow

CallDecodePoint(bytes) ==
    /\ pc = "low"
    /\ call = NoCall
    /\ call' = [fn |-> "decode_point", arg |-> <<bytes>>, personal |-> "",
                st |-> "returned", val |-> decode_point(bytes)]
    /\ UNCHANGED notLow

NextLow ==
    \/ \E p \in 0..(PallasModulus - 1) : CallEncodePoint(p)
    \/ \E bytes \in PointStrings : CallDecodePoint(bytes)
    \/ \E n \in (0..MaxBasesLen) \cup {CHUNK + 1} : CallDeriveBasesLen(n)
    \/ CallDeriveAllBases
    \/ CallG0
    \/ \E fn \in {"hash_A_h", "hash_S_h", "derive_block_r"},
          a \in ChainBytes, b \in ChainBytes : CallAccumHash(fn, a, b)
    \/ \E fn \in {"compute_orchard_root_digest", "compute_nullifier_block_digest",
                  "compute_commitment_delta_digest", "leaf_hash", "tachygram_to_fr"},
          msg \in SeqsUpTo(GramVals, MaxDigestLen) : CallBlockDigest(fn, msg)
    \/ \E chunk \in 0..MaxChunk, idx \in 0..MaxIdx : CallDeriveBase(chunk, idx)
    \/ \E bytes \in 0..MaxMapInput : CallMapVesta(bytes)
    \/ \E cs \in SeqsUpTo(MsmScalars, MaxMsmLen) : CallCommitCoeffs(cs)
    \/ \E fn \in {"roots_to_coeffs", "roots_to_coeffs_parallel", "roots_to_coeffs_fft"},
          rs \in SeqsUpTo(RootVals, MaxRoots) : CallRootsVariant(fn, rs)

SpecLow == InitLow /\ [][NextLow]_vars

----------------------------------------------------------------------------
(* Block-step harness: prove_block_poly on a drawn witness.  The roots are  *)
(* small values or the challenge r of the witness's own (p_i, a_i); the     *)
(* coefficients are none, the constant 1, or those of the roots.            *)

\* the challenge prove_block_poly derives from the witness's points
BlockChallenge(p_i, a_i) ==
    LET r_bytes == derive_block_r(encode_point(p_i), encode_point(a_i))
    IN from_uniform_halves(r_bytes, r_bytes, VestaModulus)

InitBlock ==
    /\ pc = "block"
    /\ \E p_i \in WalletPoints, a_i \in WalletPoints :
          \E rs \in SeqsUpTo(RootVals \cup {BlockChallenge(p_i, a_i)}, MaxBlockRoots) :
             \E cs \in {<<>>, <<1>>, roots_to_coeffs(rs)} :
                blockWit = BlockPolyWitness(rs, cs, p_i, a_i)
    /\ blockOut = NoOut
    /\ FirstIdle
    /\ SerIdle
    /\ PadIdle
    /\ BatchIdle
    /\ LateIdle

CallProveBlockPoly ==
    /\ pc = "block"
    /\ blockOut = NoOut
    /\ blockOut' = prove_block(blockWit)
    /\ UNCHANGED <<blockWit, notBlock>>

NextBlock == CallProveBlockPoly

SpecBlock == InitBlock /\ [][NextBlock]_vars

----------------------------------------------------------------------------
(* Encoding harness: serialize_batch on a drawn BatchUpdate *)

KeyHashes ==
    {Repeat(1, KEY_HASH_LEN), Repeat(2, KEY_HASH_LEN),
     [i \in 1..KEY_HASH_LEN |-> (37 * i) % 256]}

BatchItems == {BatchItem(h, p) : h \in KeyHashes, p \in BOOLEAN}

InitSer ==
    /\ pc = "ser"
    /\ \/ batch \in SeqsUpTo(BatchItems, MaxBatchLen)
       \/ \E it \in BatchItems, other \in BatchItems :
             batch = [i \in 1..LongBatchLen |-> IF i % 2 = 1 THEN it ELSE other]
    /\ enc = <<>>
    /\ FirstIdle
    /\ BlockIdle
    /\ PadIdle
    /\ BatchIdle
    /\ LateIdle

CallSerializeBatch ==
    /\ pc = "ser"
    /\ enc = <<>>
    /\ enc' = serialize_batch(batch)
    /\ UNCHANGED <<batch, notSer>>

NextSer == CallSerializeBatch

SpecSer == InitSer /\ [][NextSer]_vars

----------------------------------------------------------------------------
(* Padding harness: pad_coeffs_to(&mut coeffs, target_len), called any      *)
(* number of times on the same vector                                       *)

InitPad ==
    /\ pc = "pad"
    /\ padVec \in SeqsUpTo(RootVals, MaxPadLen)
    /\ padOld = padVec
    /\ padTarget = -1
    /\ FirstIdle
    /\ BlockIdle
    /\ SerIdle
    /\ BatchIdle
    /\ LateIdle

CallPadCoeffsTo(target_len) ==
    /\ pc = "pad"
    /\ padOld' = padVec
    /\ padVec' = pad_coeffs_to(padVec, target_len)
    /\ padTarget' = target_len
    /\ UNCHANGED notPad

NextPad == \E target_len \in 0..MaxPadTarget : CallPadCoeffsTo(target_len)

SpecPad == InitPad /\ [][NextPad]_vars

----------------------------------------------------------------------------
(* Batch harness: batch_roots_to_coeffs_parallel and                        *)
(* batch_roots_to_coeffs_fft on a list of root sets, the rayon workers      *)
(* finishing the items in any order                                         *)

BatchRootSets == {<<>>, <<1>>, <<2>>, <<1, 2>>, <<2, 1, 1>>}

InitBatch ==
    /\ pc = "batch"
    /\ batches \in SeqsUpTo(BatchRootSets, MaxBatches)
    /\ batchFn = "none"
    /\ batchSlots = <<>>
    /\ batchOut = NoOut
    /\ FirstIdle
    /\ BlockIdle
    /\ SerIdle
    /\ PadIdle
    /\ LateIdle

\* the caller enters the batch conversion: par_iter() over the batches
BatchCall(fn) ==
    /\ pc = "batch"
    /\ batchFn = "none"
    /\ batchFn' = fn
    /\ batchSlots' = [i \in 1..Len(batches) |-> Pending]
    /\ UNCHANGED <<batches, batchOut, notBatch>>

\* a worker finishes item i
BatchWorker(i) ==
    /\ pc = "batch"
    /\ batchFn # "none"
    /\ i \in 1..Len(batches)
    /\ batchSlots[i] = Pending
    /\ batchSlots' = collect_indexed(batchSlots, i, batch_item(batchFn, batches[i]))
    /\ UNCHANGED <<batches, batchFn, batchOut, notBatch>>

\* every item is done: collect() returns the vector
BatchCollect ==
    /\ pc = "batch"
    /\ batchFn # "none"
    /\ batchOut = NoOut
    /\ \A i \in 1..Len(batches) : batchSlots[i] # Pending
    /\ batchOut' = OkOut(batchSlots)
    /\ UNCHANGED <<batches, batchFn, batchSlots, notBatch>>

NextBatch ==
    \/ \E fn \in {"batch_roots_to_coeffs_parallel", "batch_roots_to_coeffs_fft"} :
          BatchCall(fn)
    \/ \E i \in 1..MaxBatches : BatchWorker(i)
    \/ BatchCollect

SpecBatch == InitBatch /\ [][NextBatch]_vars

----------------------------------------------------------------------------
(* The whole model: one harness per behaviour *)

----------------------------------------------------------------------------
(* PCD harness: a chain of proofs, each made by prove_step over the one    *)
(* before it, and verify_step on any proof of the chain.                   *)

\* payloads that satisfy new_root = old_root + metadata * accumulator
PcdDataSet ==
    {PcdData(old, FrAdd(old, FrMul(meta, 3)), meta, 3) : old \in {0, 1}, meta \in {1, 2}}

InitPcd ==
    /\ pc = "pcd"
    /\ PcdIdle
    /\ PoolIdle
    /\ CodecIdle
    /\ FirstIdle
    /\ MidIdle

ProveStep(data) ==
    /\ pc = "pcd"
    /\ Len(pcdChain) < MaxPcdChain
    /\ LET prev == IF pcdChain = <<>> THEN <<>> ELSE <<pcdChain[Len(pcdChain)]>>
           out == prove_step(prev, data)
       IN pcdChain' = Append(pcdChain, out.val)
    /\ UNCHANGED <<pcdChecked, notPcd>>

VerifyPcd(i) ==
    /\ pc = "pcd"
    /\ i \in 1..Len(pcdChain)
    /\ pcdChecked' = [idx |-> i, out |-> pcd_verify_step(pcdChain[i])]
    /\ UNCHANGED <<pcdChain, notPcd>>

NextPcd ==
    \/ \E data \in PcdDataSet : ProveStep(data)
    \/ \E i \in 1..MaxPcdChain : VerifyPcd(i)

SpecPcd == InitPcd /\ [][NextPcd]_vars

----------------------------------------------------------------------------
(* Mempool harness: one window, advanced by apply_batch and handed to      *)
(* verify_block and admit_tx in any order.                                 *)

Nullifiers == {1, 2}
PoolBundles ==
    {TachyonBundle(nfs, <<>>) : nfs \in {<<>>, <<1>>, <<2>>, <<1, 2>>, <<2, 1>>}}
PoolBlocks ==
    {<<b>> : b \in PoolBundles} \cup
    {<<TachyonBundle(<<1>>, <<>>), TachyonBundle(<<2>>, <<>>)>>}
PoolBatches == SeqsUpTo({BatchItem(k, p) : k \in Nullifiers, p \in BOOLEAN}, 1)

InitPool ==
    /\ pc = "pool"
    /\ PoolIdle
    /\ PcdIdle
    /\ CodecIdle
    /\ FirstIdle
    /\ MidIdle

ApplyBatch(b) ==
    /\ pc = "pool"
    /\ window_len(window) < MaxWindowLen
    /\ LET r == apply_batch(window, b)
       IN /\ window' = r.window
          /\ poolOut' = [op |-> "apply_batch", arg |-> b, out |-> OkOut(r.out)]
    /\ inserted' = inserted \cup {b[i].key_hash : i \in {j \in 1..Len(b) : b[j].present}}
    /\ UNCHANGED notPool

VerifyBlock(bundles) ==
    /\ pc = "pool"
    /\ LET r == verify_block(bundles, window)
       IN /\ window' = r.window
          /\ poolOut' = [op |-> "verify_block", arg |-> bundles, out |-> r.out]
    /\ inserted' = inserted \cup
           {all_of(bundles, "nullifiers")[i] : i \in 1..Len(all_of(bundles, "nullifiers"))}
    /\ UNCHANGED notPool

AdmitTx(bundle) ==
    /\ pc = "pool"
    /\ LET r == admit_tx(bundle, window)
       IN /\ window' = r.window
          /\ poolOut' = [op |-> "admit_tx", arg |-> bundle, out |-> r.out]
    /\ UNCHANGED <<inserted, notPool>>

NextPool ==
    \/ \E b \in PoolBatches : ApplyBatch(b)
    \/ \E bundles \in PoolBlocks : VerifyBlock(bundles)
    \/ \E bundle \in PoolBundles : AdmitTx(bundle)

SpecPool == InitPool /\ [][NextPool]_vars

----------------------------------------------------------------------------
(* Codec harness: a value is encoded; a peer hands the decoder the          *)
(* encoding as it is, cut short, followed by extra bytes or with a version *)
(* byte changed; the read helpers run on the same strings.  All integer    *)
(* fields of the strings are below 2^31.                                   *)

Stamps ==
    {Tachystamp(RangeAnchor(0, 0, Repeat(0, ROOT_LEN), Repeat(0, ROOT_LEN), <<>>),
                <<>>, Repeat(0, REDPALLAS_SIG_LEN), <<>>),
     Tachystamp(RangeAnchor(1, 300, Repeat(1, ROOT_LEN), Repeat(2, ROOT_LEN), <<7, 8>>),
                <<Repeat(4, TACHYGRAM_LEN), Repeat(3, TACHYGRAM_LEN)>>,
                Repeat(5, REDPALLAS_SIG_LEN), <<9>>)}

Aggregates ==
    {AggregateProof(<<>>, <<>>),
     AggregateProof(<<Repeat(2, TXID_LEN), Repeat(1, TXID_LEN)>>, <<1, 0>>),
     AggregateProof(<<Repeat(1, TXID_LEN)>>, <<>>)}

CodecValues ==
    {[kind |-> "stamp", v |-> x] : x \in Stamps} \cup
    {[kind |-> "agg", v |-> x] : x \in Aggregates}

to_canonical_bytes(x) ==
    IF x.kind = "stamp" THEN Tachystamp_to_canonical_bytes(x.v)
    ELSE AggregateProof_to_canonical_bytes(x.v)

from_canonical_bytes(kind, data, granted) ==
    IF kind = "stamp" THEN Tachystamp_from_canonical_bytes(data, granted)
    ELSE AggregateProof_from_canonical_bytes(data, granted)

\* the encoding of x up to the element count of its vector, with the count
\* n in place of its own: a strict prefix of the encoding of a value with
\* n elements
PrefixWithCount(x, n) ==
    IF x.kind = "stamp" THEN
        encode_u32(n, encode_range_anchor(x.v.range_anchor, <<ENC_V1>>))
    ELSE encode_u32(n, <<ENC_V1>>)

InitCodec ==
    /\ pc = "codec"
    /\ cval \in CodecValues
    /\ cbytes = <<>>
    /\ cshape = "empty"
    /\ cout = NoRead
    /\ PcdIdle
    /\ PoolIdle
    /\ FirstIdle
    /\ MidIdle

Encode ==
    /\ pc = "codec"
    /\ cshape = "empty"
    /\ cbytes' = to_canonical_bytes(cval)
    /\ cshape' = "canonical"
    /\ cout' = NoRead
    /\ UNCHANGED <<cval, notCodec>>

Truncate(k) ==
    /\ pc = "codec"
    /\ cshape = "canonical"
    /\ k < Len(cbytes)
    /\ cbytes' = SubSeq(cbytes, 1, k)
    /\ cshape' = "prefix"
    /\ cout' = NoRead
    /\ UNCHANGED <<cval, notCodec>>

TruncateHuge ==
    /\ pc = "codec"
    /\ cshape = "canonical"
    /\ cbytes' = PrefixWithCount(cval, ALLOC_SURE_BYTES)
    /\ cshape' = "huge"
    /\ cout' = NoRead
    /\ UNCHANGED <<cval, notCodec>>

Extend(extra) ==
    /\ pc = "codec"
    /\ cshape = "canonical"
    /\ cbytes' = cbytes \o extra
    /\ cshape' = "trailing"
    /\ cout' = NoRead
    /\ UNCHANGED <<cval, notCodec>>

SetVersion(k, v) ==
    /\ pc = "codec"
    /\ cshape = "canonical"
    /\ k = 2 => cval.kind = "stamp"
    /\ cbytes' = [cbytes EXCEPT ![k] = v]
    /\ cshape' = IF k = 1 THEN "version" ELSE "anchor_version"
    /\ cout' = NoRead
    /\ UNCHANGED <<cval, notCodec>>

Decode(granted) ==
    /\ pc = "codec"
    /\ cout = NoRead
    /\ cout' = [op |-> "from_canonical_bytes",
                out |-> from_canonical_bytes(cval.kind, cbytes, granted),
                rest |-> <<>>]
    /\ UNCHANGED <<cval, cbytes, cshape, notCodec>>

\* the integer of the given width at the head of data is below 2^31, or
\* data is too short to hold one
HeadBelow2p31(data, width) ==
    IF Len(data) < width THEN TRUE
    ELSE /\ \A i \in 1..(width - 4) : data[i] = 0
         /\ data[width - 3] < 128

\* a read helper is called with the cursor k bytes into the string
ReadHelper(fn, k) ==
    /\ pc = "codec"
    /\ cout = NoRead
    /\ k <= Len(cbytes)
    /\ fn \in {"read_u32", "read_vec"} => HeadBelow2p31(SliceFrom(cbytes, k), 4)
    /\ fn = "read_u64" => HeadBelow2p31(SliceFrom(cbytes, k), 8)
    /\ LET data == SliceFrom(cbytes, k)
           r == CASE fn = "read_u8" -> read_u8(data)
                  [] fn = "read_u32" -> read_u32(data)
                  [] fn = "read_u64" -> read_u64(data)
                  [] fn = "read_vec" -> read_vec(data)
                  [] fn = "read_fixed" -> read_fixed(ROOT_LEN, data)
       IN cout' = [op |-> fn, out |-> r.out, rest |-> r.data, at |-> k]
    /\ UNCHANGED <<cval, cbytes, cshape, notCodec>>

NextCodec ==
    \/ Encode
    \/ \E k \in 0..(Len(cbytes) - 1) : Truncate(k)
    \/ TruncateHuge
    \/ \E extra \in {<<0>>, <<1>>, <<0, 0, 0, 0>>} : Extend(extra)
    \/ \E k \in 1..2, v \in {0, 2, 255} : SetVersion(k, v)
    \/ \E granted \in BOOLEAN : Decode(granted)
    \/ \E fn \in {"read_u8", "read_u32", "read_u64", "read_vec", "read_fixed"},
          k \in {0, 2} : ReadHelper(fn, k)

SpecCodec == InitCodec /\ [][NextCodec]_vars

----------------------------------------------------------------------------

Init ==
    \/ InitPoly
    \/ InitPar
    \/ InitMsm
    \/ InitChain
    \/ InitWallet
    \/ InitLow
    \/ InitBlock
    \/ InitSer
    \/ InitPad
    \/ InitBatch
    \/ InitPcd
    \/ InitPool
    \/ InitCodec

Next ==
    \/ NextPoly
    \/ NextPar
    \/ NextMsm
    \/ NextChain
    \/ NextWallet
    \/ NextLow
    \/ NextBlock
    \/ NextSer
    \/ NextPad
    \/ NextBatch
    \/ NextPcd
    \/ NextPool
    \/ NextCodec

Spec == Init /\ [][Next]_vars

----------------------------------------------------------------------------
(* Claims *)

\* C1: roots_to_coeffs_fft(roots) returns the same coefficient vector as the
\* schoolbook roots_to_coeffs(roots), for every root sequence.
FftAgreesWithSchoolbook ==
    (coeffs # <<>> /\ coeffsFft # <<>>) => coeffsFft = coeffs

\* C2: for canonical encodings a_i and p_i, from_ai_pi(a_i, p_i) returns a
\* record, and verify_step on that record against a_i returns true.
BlockStepCompleteness ==
    (/\ built.op = "from_ai_pi"
     /\ decode_point(accA) # None
     /\ decode_point(built.arg[1]) # None) =>
        /\ built.out.st = "ok"
        /\ verdict # "none" => verdict = "true"

\* C3: once one byte of a_i, of p_i or of h_i has been changed in a record
\* that verify_step did not reject (it passed the decoding and hash checks,
\* as every accepted record does), verify_step returns false.
TamperDetection ==
    (tampered # "none" /\ verdict # "none") => verdict = "false"

TamperDetectionWitness ==
    /\ tampered = "a_i"
    /\ decode_point(accA) # None
    /\ decode_point(rec.p_i) # None
    /\ verdict = "false"

\* C5: eval_horner(roots_to_coeffs(roots), x) = eval_from_roots(roots, x) for
\* every root sequence and point; both are 1 for the empty root sequence.
PolynomialIdentity ==
    (hornerVal # NoVal /\ directVal # NoVal) =>
        /\ hornerVal = directVal
        /\ roots = <<>> => hornerVal = 1

PolynomialIdentityWitness ==
    /\ hornerVal # NoVal
    /\ directVal # NoVal
    /\ Len(roots) = MaxRoots
    /\ hornerVal # 0

\* C6: msm_pippenger(bases, scalars) is the naive sum that msm_reference
\* computes over the shorter of the two lengths; the identity for empty input.
MsmAgreement ==
    /\ (msmOut # NoPoint /\ refOut # NoPoint) => msmOut = refOut
    /\ (msmOut # NoPoint /\ (bases = <<>> \/ scalars = <<>>)) => msmOut = IDENTITY

MsmAgreementWitness ==
    /\ msmOut # NoPoint
    /\ refOut # NoPoint
    /\ msmOut # IDENTITY
    /\ Len(bases) > Len(scalars)
    /\ Len(scalars) >= LongMsmLen

\* C7: whatever the interleaving of the two halves of each join,
\* roots_to_coeffs_parallel(roots) returns roots_to_coeffs(roots); one root r
\* gives <<-r, 1>> and no root gives <<1>>.
ParallelAgreesWithSchoolbook ==
    ParReturned =>
        /\ tasks[1].res = roots_to_coeffs(roots)
        /\ Len(roots) = 0 => tasks[1].res = <<1>>
        /\ Len(roots) = 1 => tasks[1].res = <<FrNeg(roots[1]), 1>>

ParallelAgreesWitness ==
    /\ ParReturned
    /\ Len(roots) = MaxRoots
    /\ 7 \in DOMAIN tasks

\* C8: prove_wallet_step returns Ok exactly when alpha_i * alpha_inv = 1, and
\* the error "alpha inverse mismatch", with no public output, otherwise.
WalletStepOkIffInverse ==
    walletOut.st # "none" =>
        /\ (walletOut.st = "ok") <=> (FrMul(wit.alpha_i, wit.alpha_inv) = 1)
        /\ FrMul(wit.alpha_i, wit.alpha_inv) # 1 =>
              walletOut = ErrOut("alpha inverse mismatch")

\* C9: a constructor call, on any a_i, ends with a result the caller can
\* trust: from_ai_pi and build_block_record return a record that verify_step
\* accepts against a_i, or build_block_record returns an explicit error.
NoSilentBestEffort ==
    built.op # "none" =>
        \/ built.op = "build_block_record" /\ built.out.st = "err"
        \/ built.out.st = "ok" /\ verify_step(built.out.val, accA) = "true"

\* C10: every low-level call returns a value, and the personalization it
\* hands to BLAKE2b is at most PERSONALBYTES long.
LowLevelTotal ==
    call.fn # "none" =>
        /\ call.st = "returned"
        /\ Len(call.personal) <= PERSONALBYTES

\* C11: every domain-separation tag handed to BLAKE2b by a hashing call
\* (basis derivation, hash A, hash S, block challenge, coefficient map, block
\* digests) is between 12 and 16 bytes long.
TagLengthsInRange ==
    (call.fn # "none" /\ call.personal # "") =>
        /\ Len(call.personal) >= 12
        /\ Len(call.personal) <= 16

\* C12: verify_step returns a boolean on every input, and false whenever
\* a_i or the record's p_i is no canonical point encoding (decode_point
\* returns None on exactly the strings that encode no point).
DecodeFailureIsRejection ==
    verdict # "none" =>
        /\ verdict \in {"true", "false"}
        /\ (decode_point(accA) = None \/ decode_point(rec.p_i) = None) =>
               verdict = "false"
        /\ decode_point(accA) # None => encode_point(decode_point(accA)) = accA

\* C14: prove_block_poly ends in one of three ways: the error "commitment
\* mismatch for P_i" when the commitment to the mapped coefficients is not
\* p_i; else the error "polynomial identity failed off-circuit" when the
\* product over the roots differs from eval_horner(coeffs, r); else Ok with
\* a_next_bytes = encode(map(h_i) * A_i + P_i).
BlockProofOutcome ==
    blockOut.st # "none" =>
        LET w == blockWit
            r == BlockChallenge(w.p_i, w.a_i)
            identity_holds == eval_from_roots(w.roots, r) = eval_horner(w.coeffs, r)
            h_i == map_vesta_scalar_to_pallas(
                       hash_A_h(encode_point(w.a_i), encode_point(w.p_i)))
        IN /\ blockOut.st \in {"ok", "err"}
           /\ blockOut.st = "err" =>
                 blockOut.msg \in {"commitment mismatch for P_i",
                                   "polynomial identity failed off-circuit"}
           /\ blockOut.msg = "polynomial identity failed off-circuit" =>
                 ~identity_holds
           /\ blockOut.st = "ok" =>
                 /\ identity_holds
                 /\ blockOut.val.a_next_bytes =
                       encode_point(PtAdd(PtMul(w.a_i, h_i), w.p_i))

\* C15: roots_to_coeffs(roots) has len(roots) + 1 entries in increasing
\* degree order: the last one is the field's one, the first one the constant
\* term, the product of the negated roots.
MonicInvariant ==
    coeffs # <<>> =>
        /\ Len(coeffs) = Len(roots) + 1
        /\ coeffs[Len(coeffs)] = 1
        /\ coeffs[1] = eval_from_roots(roots, 0)

MonicInvariantWitness ==
    /\ coeffs # <<>>
    /\ Len(roots) = MaxRoots
    /\ coeffs[1] \notin {0, 1}

\* C16: derive_bases_len(n) returns n bases, the i-th being
\* derive_base(i / CHUNK, i % CHUNK); derive_all_bases() returns
\* derive_bases_len(NUM_COEFFICIENTS); g0() returns element 0 of both.
BasisEnumerationConsistent ==
    /\ call.fn = "derive_bases_len" =>
          LET n == call.arg[1]
              bs == derive_bases_len(n)
          IN /\ call.st = "returned"
             /\ Len(bs) = n
             /\ \A i \in 0..(n - 1) : bs[i + 1] = derive_base(i \div CHUNK, i % CHUNK)
             /\ n >= 1 => bs[1] = g0
    /\ call.fn = "derive_all_bases" =>
          /\ call.st = "returned"
          /\ derive_all_bases = derive_bases_len(NUM_COEFFICIENTS)
          /\ derive_all_bases[1] = g0
    /\ call.fn = "g0" => call.st = "returned"

\* C18: serialize_batch encodes k items to 8 + 33 * k bytes: k as a
\* little-endian u64, then per item, in input order, the 32-byte key_hash
\* and one byte that is 1 if present and 0 otherwise.
BatchEncoding ==
    enc # <<>> =>
        LET k == Len(batch)
        IN /\ Len(enc) = 8 + 33 * k
           /\ LeValue(SubSeq(enc, 1, 8)) = k
           /\ \A i \in 1..k :
                 /\ SubSeq(enc, 8 + 33 * (i - 1) + 1, 8 + 33 * (i - 1) + 32)
                      = batch[i].key_hash
                 /\ enc[8 + 33 * i] = IF batch[i].present THEN 1 ELSE 0

BatchEncodingWitness ==
    /\ enc # <<>>
    /\ Len(batch) = LongBatchLen
    /\ batch[1].present
    /\ ~batch[2].present
    /\ batch[1].key_hash # batch[2].key_hash

\* C19: after pad_coeffs_to(coeffs, target_len) the length is the larger of
\* the old length and target_len, the old entries are where they were, every
\* added entry is zero, and a vector at least target_len long is unchanged.
PadFrame ==
    padTarget # -1 =>
        /\ Len(padVec) = IF Len(padOld) >= padTarget THEN Len(padOld) ELSE padTarget
        /\ SubSeq(padVec, 1, Len(padOld)) = padOld
        /\ \A i \in (Len(padOld) + 1)..Len(padVec) : padVec[i] = 0
        /\ Len(padOld) >= padTarget => padVec = padOld

PadFrameWitness ==
    /\ padTarget # -1
    /\ Len(padOld) > padTarget
    /\ padTarget > 0
    /\ padOld[Len(padOld)] = 0
    /\ padOld[1] # 0

\* C20: whatever the order in which the workers finish, the batch
\* conversions return as many vectors as there are root sets, the i-th being
\* roots_to_coeffs_parallel (or roots_to_coeffs_fft) of the i-th root set.
BatchOrderPreserved ==
    batchOut.st = "ok" =>
        /\ Len(batchOut.val) = Len(batches)
        /\ \A i \in 1..Len(batches) :
              /\ batchFn = "batch_roots_to_coeffs_parallel" =>
                    batchOut.val[i] = roots_to_coeffs_parallel(batches[i])
              /\ batchFn = "batch_roots_to_coeffs_fft" =>
                    batchOut.val[i] = roots_to_coeffs_fft(batches[i])

BatchOrderPreservedWitness ==
    /\ batchOut.st = "ok"
    /\ batchFn = "batch_roots_to_coeffs_fft"
    /\ Len(batches) = MaxBatches
    /\ batchOut.val[1] # batchOut.val[2]
    /\ Len(batchOut.val[2]) > Len(batchOut.val[MaxBatches])

PcdCompleteness ==
    pcdChecked.idx # 0 => pcdChecked.out.st = "ok"

\* C23: a proof made with no predecessor has depth 1, a proof made over a
\* predecessor has the predecessor's depth plus 1: the n-th proof of a
\* chain has depth n.
ProofDepth ==
    \A i \in 1..Len(pcdChain) :
        /\ pcdChain[i].depth = i
        /\ i = 1 => pcdChain[i].depth = 1
        /\ i > 1 => pcdChain[i].depth = pcdChain[i - 1].depth + 1

\* a third proof has been made over the second
ProofDepthWitness ==
    /\ Len(pcdChain) >= 3
    /\ pcdChain[3].depth = 3

\* C24: once a nullifier has been inserted into the window, by apply_batch
\* with a present item or by verify_block of a bundle that holds it,
\* is_fresh returns false for it and admit_tx of a bundle that holds it
\* returns the error "duplicate nullifier".
DuplicateNullifierRejected ==
    /\ \A nf \in inserted : ~is_fresh(window, nf)
    /\ (/\ poolOut.op = "admit_tx"
        /\ \E i \in 1..Len(poolOut.arg.nullifiers) :
              poolOut.arg.nullifiers[i] \in inserted) =>
           poolOut.out = ErrOut("duplicate nullifier")

\* C25: build_block_record returns Ok for every decodable a_i and every
\* gram list, on the path below 64 distinct roots and on the FFT path from
\* 64 distinct roots on, and verify_step accepts the record against a_i.
PublisherCompleteness ==
    (built.op = "build_block_record" /\ decode_point(accA) # None) =>
        /\ built.out.st = "ok"
        /\ rec = built.out.val
        /\ verdict # "none" => verdict = "true"

WalletNonInterference ==
    (walletOut.st # "none" /\ FrMul(wit.alpha_i, wit.alpha_inv) = 1) =>
        /\ walletOut.st = "ok"
        /\ \A v \in 0..1, alpha_i \in AlphaVals, alpha_inv \in AlphaVals,
              p_i \in WalletPoints, s_i \in WalletPoints, a_i \in WalletPoints :
              LET other == prove_wallet_step(
                               WalletStepWitness(v, alpha_i, alpha_inv, p_i, s_i, a_i))
              IN FrMul(alpha_i, alpha_inv) = 1 =>
                    /\ other.st = "ok"
                    /\ (a_i = wit.a_i /\ p_i = wit.p_i) =>
                          /\ other.val.a_i_bytes = walletOut.val.a_i_bytes
                          /\ other.val.a_next_bytes = walletOut.val.a_next_bytes
                    /\ (s_i = wit.s_i /\ p_i = wit.p_i /\ alpha_i = wit.alpha_i) =>
                          other.val.s_next_bytes = walletOut.val.s_next_bytes

\* C28: the canonical encoding round-trips.  from_canonical_bytes on
\* to_canonical_bytes(x) returns Ok(x) for a Tachystamp and for an
\* AggregateProof x, with the order of the elements preserved.
CanonicalRoundTrip ==
    (cshape = "canonical" /\ cout.op = "from_canonical_bytes") =>
        /\ cout.out.st = "ok"
        /\ cout.out.val = cval.v

\* a value with two distinct elements has been encoded and decoded
CanonicalRoundTripWitness ==
    /\ cshape = "canonical"
    /\ cout.op = "from_canonical_bytes"
    /\ \/ cval.kind = "stamp" /\ Len(cval.v.tachygrams) = 2
       \/ cval.kind = "agg" /\ Len(cval.v.txids) = 2

\* C29: the decoders accept canonical encodings only.  Whenever
\* from_canonical_bytes(b) returns Ok(x), to_canonical_bytes(x) is b: every
\* version byte, the one inside the range anchor included, is checked.
OnlyCanonicalAccepted ==
    (cout.op = "from_canonical_bytes" /\ cout.out.st = "ok") =>
        to_canonical_bytes([kind |-> cval.kind, v |-> cout.out.val]) = cbytes

\* C30: malformed bytes are rejected with an error value, never a panic.
\* from_canonical_bytes returns Err on the empty input, on a leading version
\* byte other than 1, on every strict prefix of a valid encoding and on a
\* valid encoding followed by extra bytes; a read helper that fails leaves
\* the cursor where it was.
MalformedRejected ==
    /\ (/\ cout.op = "from_canonical_bytes"
        /\ cshape \in {"empty", "version", "prefix", "huge", "trailing"}) =>
           cout.out.st = "err"
    /\ (cout.op \in {"read_u8", "read_u32", "read_u64", "read_vec", "read_fixed"}
        /\ cout.out.st # "ok") =>
           /\ cout.out.st = "err"
           /\ cout.rest = SliceFrom(cbytes, cout.at)

====
